---- MODULE Spec2Model ----
(***************************************************************************)
(* A model of the condensation pipeline of sustainity-knowledge:           *)
(* advisor indices (condenser/src/advisors.rs, cache.rs), the entity       *)
(* handler, the collector merge and the finalizer                          *)
(* (condenser/src/condensing.rs).                                          *)
(***************************************************************************)
EXTENDS Integers, Sequences, FiniteSets, TLC

(***************************************************************************)
(* Bounds of the model.                                                    *)
(***************************************************************************)
\* Workers of one run: 1..MaxWorkers.
MaxWorkers == 2
\* Capacity of the channel between the producer and the workers.
ChanCap == 1
\* Longest product / organisation sequence of an accumulator handed to merge.
MaxAccLen == 1
\* Longest score dataset handed to FashionTransparencyIndexAdvisor::new.
MaxFtiEntries == 3
\* Longest product / organisation sequence of a collector handed to finalize.
MaxFinalLen == 3
\* Calls of ResultCollector::add before the results are gathered.
MaxAdds == 3

(***************************************************************************)
(* Option<T>: None is the empty sequence, Some(x) the sequence <<x>>.      *)
(***************************************************************************)
None == <<>>
Some(x) == <<x>>
IsSome(o) == Len(o) > 0
Unwrap(o) == o[1]

\* The elements of a sequence.
Range(s) == {s[i] : i \in 1..Len(s)}

\* Sequences over S of length 0..n.
SeqUpTo(S, n) == UNION {[1..k -> S] : k \in 0..n}

(***************************************************************************)
(* condensing.rs:15                                                        *)
(***************************************************************************)
LANG_EN == "en"

(***************************************************************************)
(* Entities of the dump (consumers_wikidata::data::Entity).  An Item holds  *)
(* its id, per-language labels and descriptions and the relations the      *)
(* handler reads; a Property holds its id.                                 *)
(***************************************************************************)
Item(id, labels, descriptions, manufacturer, websites, smartphone) ==
    [kind |-> "Item", id |-> id, labels |-> labels, descriptions |-> descriptions,
     manufacturer |-> manufacturer, websites |-> websites, smartphone |-> smartphone,
     follows |-> None, followed_by |-> None]

Property(id) == [kind |-> "Property", id |-> id]

\* A URL: whether it is written with a leading "www." and its registrable domain.
Url(www, domain) == [www |-> www, domain |-> domain]

\* utils::extract_domain_from_url: the domain of a URL, its "www." dropped.
extract_domain_from_url(url) == url.domain

\* ItemExt::get_manufacturer_ids: the ids of the manufacturer relation, if any.
get_manufacturer_ids(item) == item.manufacturer

\* ItemExt::has_official_website.
has_official_website(item) == IsSome(item.websites)

\* ItemExt::get_official_websites.
get_official_websites(item) == item.websites

\* ItemExt::is_instance_of(categories::SMARTPHONE_MODEL).
is_instance_of_smartphone(item) == item.smartphone

\* ItemExt::get_follows / get_followed_by.
get_follows(item) == item.follows

get_followed_by(item) == item.followed_by

(***************************************************************************)
(* knowledge::Certifications and its merge.                                *)
(***************************************************************************)
Certifications(bcorp, tco, fti) == [bcorp |-> bcorp, tco |-> tco, fti |-> fti]

\* Certifications::default().
Certifications_default == Certifications(FALSE, FALSE, None)

\* Certifications::merge: the flags are or-ed, a score of `other` replaces the
\* score held so far.
Certifications_merge(self, other) ==
    Certifications(self.bcorp \/ other.bcorp,
                   self.tco \/ other.tco,
                   IF IsSome(other.fti) THEN other.fti ELSE self.fti)

(***************************************************************************)
(* Advisors (advisors.rs).  A HashMap is a function, a HashSet a set.      *)
(***************************************************************************)
\* collect() of (key, value) pairs into a HashMap: a later pair replaces an
\* earlier one with the same key.
RECURSIVE CollectMap(_)
CollectMap(pairs) ==
    IF pairs = <<>> THEN <<>>
    ELSE LET n    == Len(pairs)
             init == CollectMap(SubSeq(pairs, 1, n - 1))
             k    == pairs[n][1]
         IN  [x \in (DOMAIN init) \cup {k} |-> IF x = k THEN pairs[n][2] ELSE init[x]]

\* BCorpAdvisor::new.
BCorpAdvisor_new(records) ==
    [domain_to_name |->
        CollectMap([i \in 1..Len(records) |->
            <<extract_domain_from_url(records[i].website), records[i].company_name>>])]

\* A has_domains that asks for every domain passed to be that of a company.
BCorpAdvisor_has_domains_all(self, domains) ==
    \A domain \in domains : domain \in DOMAIN self.domain_to_name

\* BCorpAdvisor::has_domains.
BCorpAdvisor_has_domains(self, domains) ==
    \E domain \in domains : domain \in DOMAIN self.domain_to_name

\* TcoAdvisor::new.
TcoAdvisor_new(entries) ==
    [companies |->
        CollectMap([i \in 1..Len(entries) |->
            <<entries[i].wikidata_id, entries[i].company_name>>])]

\* TcoAdvisor::has_company.
TcoAdvisor_has_company(self, company_id) == company_id \in DOMAIN self.companies

\* sustainity_wikidata::data::Id::to_str_id: the numeric id n as the string id Qn.
to_str_id(id) == <<"Q", id>>

(***************************************************************************)
(* Result<T, E>, and whether the load logged a warning (log::warn!).       *)
(***************************************************************************)
Ok(v) == [ok |-> TRUE, value |-> v, warned |-> FALSE]
OkWarned(v) == [ok |-> TRUE, value |-> v, warned |-> TRUE]
Err(e) == [ok |-> FALSE, error |-> e, warned |-> FALSE]

(***************************************************************************)
(* A dataset on disk: the state of its path and what a reader would parse  *)
(* from it.  Inaccessible: the path cannot be reached; Unreadable: it can, *)
(* but reading fails; Malformed: it is read but does not parse.            *)
(***************************************************************************)
PathStates == {"Inaccessible", "Unreadable", "Malformed", "Valid"}

File(state, contents) == [state |-> state, contents |-> contents]

\* utils::is_path_ok.
is_path_ok(file) == file.state # "Inaccessible"

\* The readers of sustainity_collecting (bcorp, tco, fashion_transparency_index,
\* sustainity): the parsed records, or an IoOrSerdeError.
reader_parse(file) ==
    CASE file.state = "Valid"      -> Ok(file.contents)
      [] file.state = "Malformed"  -> Err([kind |-> "Serde"])
      [] OTHER                     -> Err([kind |-> "Io"])

\* A load that fails when the path cannot be accessed.
BCorpAdvisor_load_strict(path) ==
    LET data == reader_parse(path)
    IN  IF data.ok THEN Ok(BCorpAdvisor_new(data.value)) ELSE data

\* BCorpAdvisor::load.
BCorpAdvisor_load(path) ==
    IF is_path_ok(path)
    THEN LET data == reader_parse(path)
         IN  IF data.ok THEN Ok(BCorpAdvisor_new(data.value)) ELSE data
    ELSE OkWarned(BCorpAdvisor_new(<<>>))

\* A load that takes a dataset it cannot read or parse for an empty one.
TcoAdvisor_load_lenient(path) ==
    LET data == reader_parse(path)
    IN  IF is_path_ok(path) /\ data.ok
        THEN Ok(TcoAdvisor_new(data.value))
        ELSE OkWarned(TcoAdvisor_new(<<>>))

\* TcoAdvisor::load.
TcoAdvisor_load(path) ==
    IF is_path_ok(path)
    THEN LET data == reader_parse(path)
         IN  IF data.ok THEN Ok(TcoAdvisor_new(data.value)) ELSE data
    ELSE OkWarned(TcoAdvisor_new(<<>>))

(***************************************************************************)
(* FashionTransparencyIndexAdvisor.  An entry of the score dataset holds   *)
(* an optional numeric Wikidata id, a name and a score.                    *)
(***************************************************************************)
FtiEntry(wikidata_id, name, score) ==
    [wikidata_id |-> wikidata_id, name |-> name, score |-> score]

\* The loop of FashionTransparencyIndexAdvisor::new over `source`: the entries
\* map and the repeated ids after the whole of `source`.
RECURSIVE FtiScan(_)
FtiScan(source) ==
    IF source = <<>> THEN [entries |-> <<>>, repeated_ids |-> {}]
    ELSE LET n     == Len(source)
             acc   == FtiScan(SubSeq(source, 1, n - 1))
             entry == source[n]
         IN  IF IsSome(entry.wikidata_id)
             THEN LET id     == Unwrap(entry.wikidata_id)
                      str_id == to_str_id(id)
                  IN  IF str_id \notin DOMAIN acc.entries
                      THEN [acc EXCEPT !.entries =
                               [x \in (DOMAIN acc.entries) \cup {str_id} |->
                                   IF x = str_id THEN entry ELSE acc.entries[x]]]
                      ELSE [acc EXCEPT !.repeated_ids = @ \cup {id}]
             ELSE acc

\* A new that keeps the first entry of every id and reports nothing.
FashionTransparencyIndexAdvisor_new_lenient(source) ==
    Ok([entries |-> FtiScan(source).entries])

\* FashionTransparencyIndexAdvisor::new.
FashionTransparencyIndexAdvisor_new(source) ==
    LET scan == FtiScan(source)
    IN  IF scan.repeated_ids = {}
        THEN Ok([entries |-> scan.entries])
        ELSE Err([kind |-> "SourcesCheck", repeated_ids |-> scan.repeated_ids])

\* FashionTransparencyIndexAdvisor::load.
FashionTransparencyIndexAdvisor_load(path) ==
    IF is_path_ok(path)
    THEN LET data == reader_parse(path)
         IN  IF data.ok THEN FashionTransparencyIndexAdvisor_new(data.value) ELSE data
    ELSE LET result == FashionTransparencyIndexAdvisor_new(<<>>)
         IN  IF result.ok THEN OkWarned(result.value) ELSE result

\* FashionTransparencyIndexAdvisor::has_company.
FashionTransparencyIndexAdvisor_has_company(self, company_id) ==
    company_id \in DOMAIN self.entries

\* FashionTransparencyIndexAdvisor::get_cert.
FashionTransparencyIndexAdvisor_get_cert(self, company_id) ==
    IF company_id \in DOMAIN self.entries
    THEN Some([score |-> self.entries[company_id].score])
    ELSE None

\* The score handle_entity stores (condensing.rs:172): that of get_cert.
FashionTransparencyIndexAdvisor_get_score(self, company_id) ==
    LET cert == FashionTransparencyIndexAdvisor_get_cert(self, company_id)
    IN  IF IsSome(cert) THEN Some(Unwrap(cert).score) ELSE None

(***************************************************************************)
(* The Wikidata cache (cache.rs) and WikidataAdvisor.                      *)
(***************************************************************************)
\* cache::Wikidata::default().
Wikidata_default == [manufacturer_ids |-> <<>>, classes |-> <<>>]

\* cache::load.
cache_load(path) ==
    IF path.state # "Inaccessible"
    THEN reader_parse(path)
    ELSE Ok(Wikidata_default)

\* WikidataAdvisor::new.
WikidataAdvisor_new(cache) ==
    [manufacturer_ids |-> Range(cache.manufacturer_ids), class_ids |-> Range(cache.classes)]

\* WikidataAdvisor::new_empty.
WikidataAdvisor_new_empty == [manufacturer_ids |-> {}, class_ids |-> {}]

\* WikidataAdvisor::load.
WikidataAdvisor_load(path) ==
    IF is_path_ok(path)
    THEN LET data == cache_load(path)
         IN  IF data.ok THEN Ok(WikidataAdvisor_new(data.value)) ELSE data
    ELSE OkWarned(WikidataAdvisor_new_empty)

\* WikidataAdvisor::has_manufacturer_id.
has_manufacturer_id(self, id) == id \in self.manufacturer_ids

\* WikidataAdvisor::has_class_id.
has_class_id(self, id) == id \in self.class_ids

(***************************************************************************)
(* SustainityMatchesAdvisor and EuEcolabelAdvisor: built from the          *)
(* name-matching/id map.  An entry of the map holds a name and, when the   *)
(* name was matched, the string id of the match.                           *)
(***************************************************************************)
NameMatching(name, match) == [name |-> name, match |-> match]

\* sustainity::data::NameMatching::matched.
matched(entry) == entry.match

\* sustainity_wikidata::data::StrId::to_num_id: Qn parses to n, anything else is a
\* ParseIdError.
to_num_id(str_id) ==
    IF str_id[1] = "Q" THEN Ok(str_id[2]) ELSE Err([kind |-> "IdParsing"])

\* The loop of SustainityMatchesAdvisor::new: the map after the whole of `map`, or
\* the first ParseIdError.
RECURSIVE MatchesScan(_)
MatchesScan(map) ==
    IF map = <<>> THEN Ok(<<>>)
    ELSE LET n     == Len(map)
             acc   == MatchesScan(SubSeq(map, 1, n - 1))
             entry == map[n]
         IN  IF ~acc.ok THEN acc
             ELSE IF IsSome(matched(entry))
             THEN LET num == to_num_id(Unwrap(matched(entry)).wiki_id)
                  IN  IF num.ok
                      THEN Ok([x \in (DOMAIN acc.value) \cup {entry.name} |->
                                  IF x = entry.name THEN num.value ELSE acc.value[x]])
                      ELSE num
             ELSE acc

\* SustainityMatchesAdvisor::new.
SustainityMatchesAdvisor_new(map) ==
    LET scan == MatchesScan(map)
    IN  IF scan.ok THEN Ok([name_to_wiki |-> scan.value]) ELSE scan

\* A load that fails when the path cannot be accessed.
SustainityMatchesAdvisor_load_strict(match_path) ==
    LET map == reader_parse(match_path)
    IN  IF map.ok THEN SustainityMatchesAdvisor_new(map.value) ELSE map

\* SustainityMatchesAdvisor::load.
SustainityMatchesAdvisor_load(match_path) ==
    IF is_path_ok(match_path)
    THEN LET map == reader_parse(match_path)
         IN  IF map.ok THEN SustainityMatchesAdvisor_new(map.value) ELSE map
    ELSE LET result == SustainityMatchesAdvisor_new(<<>>)
         IN  IF result.ok THEN OkWarned(result.value) ELSE result

\* SustainityMatchesAdvisor::name_to_wiki.
name_to_wiki(self, name) ==
    IF name \in DOMAIN self.name_to_wiki THEN Some(self.name_to_wiki[name]) ELSE None

\* The first loop of EuEcolabelAdvisor::new: names to their matches.
EuNameToWiki(map) ==
    CollectMap([i \in 1..Len(SelectSeq(map, LAMBDA e : IsSome(matched(e)))) |->
        LET e == SelectSeq(map, LAMBDA x : IsSome(matched(x)))[i]
        IN  <<e.name, Unwrap(matched(e))>>])

\* EuEcolabelAdvisor::new: a record holds an optional VAT number and the name it
\* is matched by; every VAT number of the model converts to a VatId.
EuEcolabelAdvisor_new(records, map) ==
    LET nameToWiki == EuNameToWiki(map)
        kept == SelectSeq(records, LAMBDA r :
                    IsSome(r.vat_number) /\ r.product_or_service_name \in DOMAIN nameToWiki)
    IN  Ok([vat_to_wiki |->
            CollectMap([i \in 1..Len(kept) |->
                <<Unwrap(kept[i].vat_number), nameToWiki[kept[i].product_or_service_name]>>])])

\* EuEcolabelAdvisor::load.
EuEcolabelAdvisor_load(original_path, match_path) ==
    IF is_path_ok(original_path)
    THEN LET data == reader_parse(original_path)
         IN  IF ~data.ok THEN data
             ELSE IF is_path_ok(match_path)
             THEN LET map == reader_parse(match_path)
                  IN  IF map.ok THEN EuEcolabelAdvisor_new(data.value, map.value) ELSE map
             ELSE OkWarned(EuEcolabelAdvisor_new(<<>>, <<>>).value)
    ELSE OkWarned(EuEcolabelAdvisor_new(<<>>, <<>>).value)

\* EuEcolabelAdvisor::vat_to_wiki.
vat_to_wiki(self, vat_id) ==
    IF vat_id \in DOMAIN self.vat_to_wiki THEN Some(self.vat_to_wiki[vat_id]) ELSE None

(***************************************************************************)
(* condensing.rs: the essentials and the sources of the condensation.      *)
(***************************************************************************)
\* consumers_wikidata::dump::Loader::load: the dump must open.
Loader_load(path) ==
    IF path.state \in {"Inaccessible", "Unreadable"}
    THEN Err([kind |-> "Io"])
    ELSE Ok([path |-> path])

\* CondensingEssentials::load.
CondensingEssentials_load(config) ==
    LET data == Loader_load(config.wikidata_source_path)
    IN  IF data.ok THEN Ok([data |-> data.value]) ELSE data

\* CondensingSources::load: each `?` returns the first error.
CondensingSources_load(config) ==
    LET cache == cache_load(config.wikidata_cache_path)
        bcorp == BCorpAdvisor_load(config.bcorp_path)
        tco   == TcoAdvisor_load(config.tco_path)
        fti   == FashionTransparencyIndexAdvisor_load(config.fashion_transparency_index_path)
    IN  IF ~cache.ok THEN cache
        ELSE IF ~bcorp.ok THEN bcorp
        ELSE IF ~tco.ok THEN tco
        ELSE IF ~fti.ok THEN fti
        ELSE [ok |-> TRUE,
              value |-> [cache |-> WikidataAdvisor_new(cache.value), bcorp |-> bcorp.value,
                         tco |-> tco.value, fti |-> fti.value],
              warned |-> bcorp.warned \/ tco.warned \/ fti.warned]

(***************************************************************************)
(* CondensingCollector (condensing.rs:76-101).                             *)
(***************************************************************************)
\* CondensingCollector::default().
CondensingCollector_default == [products |-> <<>>, organisations |-> <<>>]

\* CondensingCollector::add_product.
add_product(self, product) == [self EXCEPT !.products = Append(@, product)]

\* CondensingCollector::add_organisation.
add_organisation(self, organisation) ==
    [self EXCEPT !.organisations = Append(@, organisation)]

\* A merge that forgets to take over the organisations of `other`.
merge_products_only(self, other) ==
    [products |-> self.products \o other.products, organisations |-> self.organisations]

\* merge::Merge for CondensingCollector.
merge(self, other) ==
    [products      |-> self.products \o other.products,
     organisations |-> self.organisations \o other.organisations]

(***************************************************************************)
(* CondensingProcessor (condensing.rs:109-230).                            *)
(***************************************************************************)
\* An is_organisation that takes every item for an organisation.
is_organisation_always(item, sources) == TRUE

\* CondensingProcessor::is_organisation.
is_organisation(item, sources) ==
    has_manufacturer_id(sources.cache, item.id) \/ has_official_website(item)

\* The description in LANG_EN, or the default (empty) string.
DescriptionOf(item) ==
    IF LANG_EN \in DOMAIN item.descriptions THEN item.descriptions[LANG_EN] ELSE ""

\* The Product handle_entity builds (condensing.rs:134-153).
ProductOf(item, name) ==
    [id               |-> item.id,
     name             |-> name,
     description      |-> DescriptionOf(item),
     category         |-> IF is_instance_of_smartphone(item) THEN Some("Smartphone") ELSE None,
     manufacturer_ids |-> get_manufacturer_ids(item),
     follows          |-> get_follows(item),
     followed_by      |-> get_followed_by(item),
     certifications   |-> Certifications_default]

\* The Organisation handle_entity builds (condensing.rs:160-187).
OrganisationOf(item, name, sources) ==
    LET websites == get_official_websites(item)
        domains  == IF IsSome(websites)
                    THEN {extract_domain_from_url(w) : w \in Range(Unwrap(websites))}
                    ELSE {}
        is_bcorp  == BCorpAdvisor_has_domains(sources.bcorp, domains)
        is_tco    == TcoAdvisor_has_company(sources.tco, item.id)
        fti_score == FashionTransparencyIndexAdvisor_get_score(sources.fti, item.id)
    IN  [id             |-> item.id,
         name           |-> name,
         description    |-> DescriptionOf(item),
         websites       |-> IF IsSome(websites) THEN Unwrap(websites) ELSE <<>>,
         certifications |-> Certifications(is_bcorp, is_tco, fti_score)]

\* A handle_entity that takes an item for a product or else for an organisation,
\* never for both.
handle_entity_either(entity, sources, collector) ==
    IF entity.kind = "Item" /\ LANG_EN \in DOMAIN entity.labels
    THEN LET name == entity.labels[LANG_EN]
         IN  IF IsSome(get_manufacturer_ids(entity))
             THEN Ok(add_product(collector, ProductOf(entity, name)))
             ELSE IF is_organisation(entity, sources)
             THEN Ok(add_organisation(collector, OrganisationOf(entity, name, sources)))
             ELSE Ok(collector)
    ELSE Ok(collector)

\* A handle_entity that emits records for an item without a label in LANG_EN too,
\* under an empty name.
handle_entity_unnamed(entity, sources, collector) ==
    IF entity.kind = "Item"
    THEN LET name == IF LANG_EN \in DOMAIN entity.labels THEN entity.labels[LANG_EN] ELSE ""
             c1 == IF IsSome(get_manufacturer_ids(entity))
                   THEN add_product(collector, ProductOf(entity, name))
                   ELSE collector
             c2 == IF is_organisation(entity, sources)
                   THEN add_organisation(c1, OrganisationOf(entity, name, sources))
                   ELSE c1
         IN  Ok(c2)
    ELSE Ok(collector)

\* CondensingProcessor::handle_entity: the result, and the collector after it.
handle_entity(entity, sources, collector) ==
    IF entity.kind = "Item"
    THEN IF LANG_EN \in DOMAIN entity.labels
         THEN LET name == entity.labels[LANG_EN]
                  c1 == IF IsSome(get_manufacturer_ids(entity))
                        THEN add_product(collector, ProductOf(entity, name))
                        ELSE collector
                  c2 == IF is_organisation(entity, sources)
                        THEN add_organisation(c1, OrganisationOf(entity, name, sources))
                        ELSE c1
              IN  Ok(c2)
         ELSE Ok(collector)
    ELSE Ok(collector)

\* A map that misses the last of the organisations.
organisation_certifications_but_last(collector) ==
    CollectMap([i \in 1..(Len(collector.organisations) - 1) |->
        <<collector.organisations[i].id, collector.organisations[i].certifications>>])

\* A map that keeps, of the organisations with one id, the first.
organisation_certifications_first_wins(collector) ==
    LET n == Len(collector.organisations)
    IN  CollectMap([i \in 1..n |->
            <<collector.organisations[n + 1 - i].id,
              collector.organisations[n + 1 - i].certifications>>])

\* The map finalize builds from the organisations (condensing.rs:203-208).
organisation_certifications(collector) ==
    CollectMap([i \in 1..Len(collector.organisations) |->
        <<collector.organisations[i].id, collector.organisations[i].certifications>>])

\* A loop that merges the certifications of the last manufacturer id only.
MergeManufacturers_last_only(certifications, manufacturer_ids, orgCerts) ==
    IF manufacturer_ids = <<>> THEN certifications
    ELSE LET id == manufacturer_ids[Len(manufacturer_ids)]
         IN  IF id \in DOMAIN orgCerts
             THEN Certifications_merge(certifications, orgCerts[id])
             ELSE certifications

\* The inner loop of finalize (condensing.rs:212-216) over the manufacturer ids.
RECURSIVE MergeManufacturers(_, _, _)
MergeManufacturers(certifications, manufacturer_ids, orgCerts) ==
    IF manufacturer_ids = <<>> THEN certifications
    ELSE LET n    == Len(manufacturer_ids)
             init == MergeManufacturers(certifications,
                                        SubSeq(manufacturer_ids, 1, n - 1), orgCerts)
             id   == manufacturer_ids[n]
         IN  IF id \in DOMAIN orgCerts
             THEN Certifications_merge(init, orgCerts[id])
             ELSE init

\* A finalize that scans the organisations, in the order of the collector, for the
\* manufacturers of each product, instead of looking each manufacturer id up.
RECURSIVE MergeOrganisations(_, _, _)
MergeOrganisations(certifications, manufacturer_ids, organisations) ==
    IF organisations = <<>> THEN certifications
    ELSE LET n    == Len(organisations)
             init == MergeOrganisations(certifications, manufacturer_ids,
                                        SubSeq(organisations, 1, n - 1))
         IN  IF organisations[n].id \in Range(manufacturer_ids)
             THEN Certifications_merge(init, organisations[n].certifications)
             ELSE init

finalize_products_scanning(collector) ==
    [i \in 1..Len(collector.products) |->
        LET product == collector.products[i]
        IN  IF IsSome(product.manufacturer_ids)
            THEN [product EXCEPT !.certifications =
                     MergeOrganisations(@, Unwrap(product.manufacturer_ids),
                                        collector.organisations)]
            ELSE product]

\* A finalize that writes the products of the collector as they are, not the
\* copy the certifications were merged into.
finalize_products_unmerged(collector) == collector.products

\* The products finalize writes (condensing.rs:209-218).
finalize_products(collector) ==
    LET orgCerts == organisation_certifications(collector)
    IN  [i \in 1..Len(collector.products) |->
            LET product == collector.products[i]
            IN  IF IsSome(product.manufacturer_ids)
                THEN [product EXCEPT !.certifications =
                         MergeManufacturers(@, Unwrap(product.manufacturer_ids), orgCerts)]
                ELSE product]

(***************************************************************************)
(* The two artifacts finalize writes, and finalize with the steps that can *)
(* fail.  An artifact is absent, the output of an earlier run, the         *)
(* contents written by this run, or a file std::fs::write has created or   *)
(* truncated and not written to its end.                                   *)
(***************************************************************************)
Absent == [kind |-> "Absent"]
Stale == [kind |-> "Stale"]
Truncated == [kind |-> "Truncated"]
Written(contents) == [kind |-> "Written", contents |-> contents]

\* The step of finalize that fails: none, serde_json::to_string_pretty of the
\* products (condensing.rs:221), std::fs::write of the products (222),
\* to_string_pretty of the organisations (225), write of the organisations (226).
FinalizeFaults ==
    {"none", "products_json", "products_write", "organisations_json",
     "organisations_write"}

\* std::fs::write that fails: before it has created or truncated the file, or
\* after.
fs_write_failed(file, truncated) == IF truncated THEN Truncated ELSE file

\* CondensingProcessor::finalize: its result and the two artifacts after it.
finalize(collector, files, fault, truncated) ==
    LET products == finalize_products(collector)
    IN  CASE fault = "products_json" ->
                [result        |-> Err([kind |-> "Serde"]),
                 products      |-> files.products,
                 organisations |-> files.organisations]
          [] fault = "products_write" ->
                [result        |-> Err([kind |-> "Io"]),
                 products      |-> fs_write_failed(files.products, truncated),
                 organisations |-> files.organisations]
          [] fault = "organisations_json" ->
                [result        |-> Err([kind |-> "Serde"]),
                 products      |-> Written(products),
                 organisations |-> files.organisations]
          [] fault = "organisations_write" ->
                [result        |-> Err([kind |-> "Io"]),
                 products      |-> Written(products),
                 organisations |-> fs_write_failed(files.organisations, truncated)]
          [] OTHER ->
                [result        |-> Ok(<<>>),
                 products      |-> Written(products),
                 organisations |-> Written(collector.organisations)]

(***************************************************************************)
(* The scores of the search results are f64.  A score of the model is a    *)
(* finite binary64 number that is not negative: zero, or a significand of  *)
(* F64Bits bits, the first of them 1, times 2^exp.  The bits are kept as a *)
(* sequence, the most significant first, so that every operation rounds    *)
(* as the hardware does (to nearest, ties to even).  The scores a search   *)
(* can reach are far from overflow and from the subnormal range.           *)
(***************************************************************************)
F64Bits == 53

F64Zero == [sig |-> <<>>, exp |-> 0]

Zeros(n) == [i \in 1..n |-> 0]

StripZeros(bits) ==
    LET ones == {i \in 1..Len(bits) : bits[i] = 1}
    IN  IF ones = {}
        THEN <<>>
        ELSE SubSeq(bits, CHOOSE i \in ones : \A j \in ones : i <= j, Len(bits))

RECURSIVE NatBits(_)
NatBits(n) ==
    IF n = 0 THEN <<>> ELSE Append(NatBits(n \div 2), n % 2)

\* bits + 1: the ones at the end become zeros and the last zero a one.
Increment(bits) ==
    LET n     == Len(bits)
        zeros == {i \in 1..n : bits[i] = 0}
    IN  IF zeros = {}
        THEN <<1>> \o Zeros(n)
        ELSE LET last == CHOOSE i \in zeros : \A j \in zeros : j <= i
             IN  [i \in 1..n |-> IF i < last THEN bits[i] ELSE IF i = last THEN 1 ELSE 0]

\* The sum of two numbers of the same count of bits.  A carry enters a
\* position when a later position makes one (1 + 1) and every position in
\* between passes it on (at least one 1).
AddBits(a, b) ==
    LET n        == Len(a)
        carry(i) == IF \E j \in (i + 1)..n :
                          /\ a[j] + b[j] = 2
                          /\ \A k \in (i + 1)..(j - 1) : a[k] + b[k] >= 1
                    THEN 1 ELSE 0
    IN  (IF carry(0) = 1 THEN <<1>> ELSE <<>>)
            \o [i \in 1..n |-> (a[i] + b[i] + carry(i)) % 2]

\* 2^i modulo d.
RECURSIVE Pow2Mod(_, _)
Pow2Mod(i, d) ==
    IF i = 0
    THEN 1 % d
    ELSE LET half == Pow2Mod(i \div 2, d)
         IN  (half * half * (IF i % 2 = 1 THEN 2 ELSE 1)) % d

\* The first count bits of r / d after the binary point, for r < d, and
\* what is left of r: long division, whose remainder after i bits is
\* r * 2^i modulo d.
FractionBits(r, d, count) ==
    LET rem(i) == (r * Pow2Mod(i, d)) % d
    IN  [bits |-> [i \in 1..count |-> (2 * rem(i - 1)) \div d], rem |-> rem(count)]

\* The f64 nearest to bits * 2^exp, plus something below the last bit when
\* sticky; a tie goes to the even significand.
F64Round(bits0, exp, sticky) ==
    LET bits == StripZeros(bits0)
        n    == Len(bits)
    IN  IF n = 0
        THEN F64Zero
        ELSE IF n <= F64Bits
        THEN [sig |-> bits \o Zeros(F64Bits - n), exp |-> exp - (F64Bits - n)]
        ELSE LET keep == SubSeq(bits, 1, F64Bits)
                 rest == SubSeq(bits, F64Bits + 1, n)
                 more == sticky \/ \E i \in 2..Len(rest) : rest[i] = 1
                 up   == rest[1] = 1 /\ (more \/ keep[F64Bits] = 1)
                 inc  == Increment(keep)
             IN  IF ~up
                 THEN [sig |-> keep, exp |-> exp + Len(rest)]
                 ELSE IF Len(inc) > F64Bits
                 THEN [sig |-> SubSeq(inc, 1, F64Bits), exp |-> exp + Len(rest) + 1]
                 ELSE [sig |-> inc, exp |-> exp + Len(rest)]

\* `n as f64`, for a usize the significand holds.
F64FromNat(n) == F64Round(NatBits(n), 0, FALSE)

\* `n as f64 / d as f64`, for d > 0: the quotient correctly rounded.  The
\* quotient is expanded eight bits past the significand and the round bit,
\* enough for every quotient not below 1/128.
F64Div(n, d) ==
    LET count == F64Bits + 8
        frac  == FractionBits(n % d, d, count)
    IN  F64Round(NatBits(n \div d) \o frac.bits, -count, frac.rem # 0)

\* `a + b`: the exact sum, rounded.
F64Add(a, b) ==
    IF a = F64Zero THEN b
    ELSE IF b = F64Zero THEN a
    ELSE LET exp   == IF a.exp < b.exp THEN a.exp ELSE b.exp
             abits == a.sig \o Zeros(a.exp - exp)
             bbits == b.sig \o Zeros(b.exp - exp)
             len   == IF Len(abits) < Len(bbits) THEN Len(bbits) ELSE Len(abits)
         IN  F64Round(AddBits(Zeros(len - Len(abits)) \o abits,
                              Zeros(len - Len(bbits)) \o bbits), exp, FALSE)

\* `a < b`.
F64Less(a, b) ==
    IF b = F64Zero THEN FALSE
    ELSE IF a = F64Zero THEN TRUE
    ELSE \/ a.exp < b.exp
         \/ /\ a.exp = b.exp
            /\ \E i \in 1..F64Bits :
                  /\ a.sig[i] < b.sig[i]
                  /\ \A j \in 1..(i - 1) : a.sig[j] = b.sig[j]

(***************************************************************************)
(* The ResultCollector of the text search: its results are a map from the  *)
(* id of a search result to the result and its score.                      *)
(***************************************************************************)
index_score(index) ==
    IF IsSome(index) THEN F64Div(1, Unwrap(index) + 1) ELSE F64FromNat(10)

item_score(result, matching) == F64Div(Len(matching), Len(result.label))

total_score(result, matching, index) ==
    F64Add(F64Add(F64FromNat(1), index_score(index)), item_score(result, matching))

with_added_score(self, score) == [self EXCEPT !.score = F64Add(self.score, score)]

RECURSIVE ResultCollector_add(_, _, _, _)
ResultCollector_add(self, results, matching, index) ==
    IF results = <<>>
    THEN self
    ELSE LET result == Head(results)
             total  == total_score(result, matching, index)
             next   == IF result.id \in DOMAIN self
                       THEN [self EXCEPT ![result.id] = with_added_score(@, total)]
                       ELSE [id \in DOMAIN self \cup {result.id} |->
                               IF id = result.id
                               THEN [score |-> total, result |-> result]
                               ELSE self[id]]
         IN  ResultCollector_add(next, Tail(results), matching, index)

\* Ord::cmp of the ids of the model, which are one digit long: the order
\* of the digits.
IdOrder == <<"1", "2", "3">>

IdLess(a, b) ==
    \E i, j \in 1..Len(IdOrder) : i < j /\ IdOrder[i] = a /\ IdOrder[j] = b

\* The comparison of the sort puts a before b: the greater score first,
\* equal scores by id.
SortsBefore(a, b) ==
    \/ F64Less(b.score, a.score)
    \/ a.score = b.score /\ IdLess(a.result.id, b.result.id)

RECURSIVE SortBy(_)
SortBy(values) ==
    IF values = {}
    THEN <<>>
    ELSE LET first == CHOOSE a \in values : \A b \in values \ {a} : SortsBefore(a, b)
         IN  <<first>> \o SortBy(values \ {first})

gather_scored_results(self) == SortBy({self[id] : id \in DOMAIN self})

(***************************************************************************)
(* The inputs of the model: the entities a dump is made of and the         *)
(* auxiliary datasets the indices are built from.                          *)
(***************************************************************************)
Q(n) == to_str_id(n)

FairphoneCom == "fairphone.com"
OtherOrg == "other.org"

En(name) == [l \in {LANG_EN} |-> name]
De(name) == [l \in {"de"} |-> name]

\* Entity Q1: an organisation with a website, with or without a label in LANG_EN,
\* or an item with no relation at all.
Variants1 ==
    { Item(Q(1), En("Fairphone"), En("A company"), None,
           Some(<<Url(TRUE, FairphoneCom)>>), FALSE),
      Item(Q(1), De("Fairphone"), De("Eine Firma"), None,
           Some(<<Url(TRUE, FairphoneCom)>>), FALSE),
      Item(Q(1), En("Fairphone"), <<>>, None, None, FALSE) }

\* Entity Q2: a product of Q1 (or of Q1 and Q3), with or without a label in
\* LANG_EN, with or without a website of its own.
Variants2 ==
    { Item(Q(2), En("Fairphone 4"), En("A phone"), Some(<<Q(1)>>), None, TRUE),
      Item(Q(2), De("Fairphone 4"), <<>>, Some(<<Q(1)>>), None, TRUE),
      Item(Q(2), En("Fairphone 4"), <<>>, Some(<<Q(1)>>),
           Some(<<Url(FALSE, OtherOrg)>>), FALSE),
      Item(Q(2), En("Fairphone 4"), <<>>, Some(<<Q(1), Q(3)>>), None, TRUE) }

\* Entity Q3: an item with no manufacturer and no website, a property, or an
\* organisation with a website.
Variants3 ==
    { Item(Q(3), En("Thing"), <<>>, None, None, FALSE),
      Property(<<"P", 3>>),
      Item(Q(3), En("Other"), <<>>, None, Some(<<Url(FALSE, OtherOrg)>>), FALSE) }

\* The permutations of 1..n.
Perms(n) == {f \in [1..n -> 1..n] : \A i, j \in 1..n : f[i] = f[j] => i = j}

\* The dumps: one variant of each entity, in any stream order.
Dumps ==
    { [i \in 1..3 |-> <<e1, e2, e3>>[f[i]]] :
        e1 \in Variants1, e2 \in Variants2, e3 \in Variants3, f \in Perms(3) }

\* The contents of the auxiliary datasets.
CacheData == { Wikidata_default,
               [manufacturer_ids |-> <<Q(1), Q(3)>>, classes |-> <<Q(4)>>] }

BCorpData == { <<>>,
               <<[website |-> Url(FALSE, FairphoneCom), company_name |-> "Fairphone"]>> }

TcoData == { <<>>, <<[wikidata_id |-> Q(1), company_name |-> "Fairphone"]>> }

FtiData == { <<>>,
             <<FtiEntry(Some(1), "Fairphone", 5), FtiEntry(None, "Unmatched", 6),
               FtiEntry(Some(3), "Other", 7)>> }

\* The configurations whose datasets are all there and valid.
ValidConfigs ==
    { [wikidata_source_path            |-> File("Valid", <<>>),
       wikidata_cache_path             |-> File("Valid", c),
       bcorp_path                      |-> File("Valid", b),
       tco_path                        |-> File("Valid", t),
       fashion_transparency_index_path |-> File("Valid", f)] :
        c \in CacheData, b \in BCorpData, t \in TcoData, f \in FtiData }

\* The configurations of the runs of the pipeline: the three certification
\* datasets are all empty or all filled.
PipeConfigs ==
    { config \in ValidConfigs :
        /\ (config.bcorp_path.contents = <<>>) = (config.tco_path.contents = <<>>)
        /\ (config.bcorp_path.contents = <<>>)
              = (config.fashion_transparency_index_path.contents = <<>>) }

(***************************************************************************)
(* The state.                                                              *)
(***************************************************************************)
VARIABLES
    \* The run of the pipeline.
    dump,             \* the entities of the dump, in stream order
    sources,          \* the CondensingSources the run was given
    nWorkers,         \* the number of workers of the run
    sent,             \* how many entities the producer has sent
    chan,             \* the entities in the channel
    closed,           \* whether the producer has closed the channel
    wpc,              \* each worker: "recv", "handle" or "returned"
    cur,              \* each worker: the entity it received and has not handled yet
    acc,              \* each worker: its accumulator
    live,             \* the workers whose accumulator has not been merged into another
    pc,               \* the run: "stream", "merge" or "done"
    outProducts,      \* the products artifact: None until it is written
    outOrganisations, \* the organisations artifact: None until it is written
    runResult,        \* None while the run goes on, then its result
    handledBy,        \* each entity of the dump: the workers that have handled it
    failure,          \* None, or the first failure of the run
    \* Merging accumulators.
    mOrig,            \* the accumulators given
    mAcc,             \* the accumulators now
    mParts,           \* which of the accumulators given each one has taken over
    mLive,            \* the accumulators not merged into another
    \* Handling one entity.
    handled,          \* None, or the call of handle_entity made and its result
    \* Loading the datasets.
    loaded,           \* None, or the load made and its result
    \* Building the Fashion Transparency Index advisor.
    ftiSource,        \* the entries of the score dataset
    ftiResult,        \* None, or the result of FashionTransparencyIndexAdvisor::new
    \* Finalizing one collector.
    fCollector,       \* the collector finalize is given
    fBefore,          \* the two artifacts before the call
    fProducts,        \* the products artifact
    fOrganisations,   \* the organisations artifact
    fResult,          \* None, or the result of finalize
    \* Collecting search results.
    rcResults,        \* the results of the ResultCollector: id -> ScoredResult
    rcAdds,           \* the calls of add made so far, in order
    rcGathered        \* None, or what gather_scored_results returned

pipeVars == <<dump, sources, nWorkers, sent, chan, closed, wpc, cur, acc, live, pc,
              outProducts, outOrganisations, runResult, handledBy, failure>>
mergeVars == <<mOrig, mAcc, mParts, mLive>>
handleVars == <<handled>>
loadVars == <<loaded>>
ftiVars == <<ftiSource, ftiResult>>
finalVars == <<fCollector, fBefore, fProducts, fOrganisations, fResult>>
collectVars == <<rcResults, rcAdds, rcGathered>>
vars == <<pipeVars, mergeVars, handleVars, loadVars, ftiVars, finalVars, collectVars>>
notPipeVars == <<mergeVars, handleVars, loadVars, ftiVars, finalVars, collectVars>>
notMergeVars == <<pipeVars, handleVars, loadVars, ftiVars, finalVars, collectVars>>
notHandleVars == <<pipeVars, mergeVars, loadVars, ftiVars, finalVars, collectVars>>
notLoadVars == <<pipeVars, mergeVars, handleVars, ftiVars, finalVars, collectVars>>
notFtiVars == <<pipeVars, mergeVars, handleVars, loadVars, finalVars, collectVars>>
notFinalVars == <<pipeVars, mergeVars, handleVars, loadVars, ftiVars, collectVars>>
notCollectVars == <<pipeVars, mergeVars, handleVars, loadVars, ftiVars, finalVars>>

Workers == 1..nWorkers

(***************************************************************************)
(* The parts of the state a specification does not use stay as they start. *)
(***************************************************************************)
PipeIdle ==
    /\ dump = <<>> /\ sources = <<>> /\ nWorkers = 0 /\ sent = 0 /\ chan = <<>>
    /\ closed = FALSE /\ wpc = <<>> /\ cur = <<>> /\ acc = <<>> /\ live = {}
    /\ pc = "idle" /\ outProducts = None /\ outOrganisations = None /\ runResult = None
    /\ handledBy = <<>> /\ failure = None

MergeIdle == mOrig = <<>> /\ mAcc = <<>> /\ mParts = <<>> /\ mLive = {}

HandleIdle == handled = None

LoadIdle == loaded = None

FtiIdle == ftiSource = <<>> /\ ftiResult = None

FinalIdle ==
    /\ fCollector = <<>> /\ fBefore = <<>> /\ fProducts = <<>> /\ fOrganisations = <<>>
    /\ fResult = None

CollectIdle == rcResults = <<>> /\ rcAdds = <<>> /\ rcGathered = None

(***************************************************************************)
(* The run of the pipeline: one producer, nWorkers workers with private    *)
(* accumulators, the merge of the accumulators and the finalizer.          *)
(***************************************************************************)
PipeInit ==
    /\ dump \in Dumps
    /\ \E config \in PipeConfigs : sources = CondensingSources_load(config).value
    /\ nWorkers \in 1..MaxWorkers
    /\ sent = 0
    /\ chan = <<>>
    /\ closed = FALSE
    /\ wpc = [w \in 1..nWorkers |-> "recv"]
    /\ cur = [w \in 1..nWorkers |-> None]
    /\ acc = [w \in 1..nWorkers |-> CondensingCollector_default]
    /\ live = 1..nWorkers
    /\ pc = "stream"
    /\ outProducts = None
    /\ outOrganisations = None
    /\ runResult = None
    /\ handledBy = [i \in 1..Len(dump) |-> <<>>]
    /\ failure = None

\* A send that does not wait for room in the channel.
Send_unbounded ==
    /\ pc = "stream" /\ ~closed
    /\ sent < Len(dump)
    /\ chan' = Append(chan, dump[sent + 1])
    /\ sent' = sent + 1
    /\ UNCHANGED <<dump, sources, nWorkers, closed, wpc, cur, acc, live, pc,
                   outProducts, outOrganisations, runResult, handledBy, failure,
                   notPipeVars>>

\* The producer sends the next entity; it waits while the channel is full.
Send ==
    /\ pc = "stream" /\ ~closed
    /\ sent < Len(dump)
    /\ Len(chan) < ChanCap
    /\ chan' = Append(chan, dump[sent + 1])
    /\ sent' = sent + 1
    /\ UNCHANGED <<dump, sources, nWorkers, closed, wpc, cur, acc, live, pc,
                   outProducts, outOrganisations, runResult, handledBy, failure,
                   notPipeVars>>

\* The producer has sent the whole dump and closes the channel.
Close ==
    /\ pc = "stream" /\ ~closed
    /\ sent = Len(dump)
    /\ closed' = TRUE
    /\ UNCHANGED <<dump, sources, nWorkers, sent, chan, wpc, cur, acc, live, pc,
                   outProducts, outOrganisations, runResult, handledBy, failure,
                   notPipeVars>>

\* A worker receives an entity; it waits while the channel is empty and open.
Recv(w) ==
    /\ wpc[w] = "recv"
    /\ chan # <<>>
    /\ cur' = [cur EXCEPT ![w] = Some(Head(chan))]
    /\ chan' = Tail(chan)
    /\ wpc' = [wpc EXCEPT ![w] = "handle"]
    /\ UNCHANGED <<dump, sources, nWorkers, sent, closed, acc, live, pc,
                   outProducts, outOrganisations, runResult, handledBy, failure,
                   notPipeVars>>

\* Where the entity is in the dump: the ids of a dump are unique.
EntityIndex(entity) == CHOOSE i \in 1..Len(dump) : dump[i] = entity

\* A worker that handles the entity it received into the accumulator of the
\* first worker.
Handle_into_first(w) ==
    /\ wpc[w] = "handle"
    /\ LET result == handle_entity(Unwrap(cur[w]), sources, acc[1])
       IN  /\ result.ok
           /\ acc' = [acc EXCEPT ![1] = result.value]
    /\ cur' = [cur EXCEPT ![w] = None]
    /\ wpc' = [wpc EXCEPT ![w] = "recv"]
    /\ handledBy' = [handledBy EXCEPT ![EntityIndex(Unwrap(cur[w]))] = Append(@, w)]
    /\ UNCHANGED <<dump, sources, nWorkers, sent, chan, closed, live, pc,
                   outProducts, outOrganisations, runResult, failure,
                   notPipeVars>>

\* A worker handles the entity it received, into its own accumulator.
Handle(w) ==
    /\ wpc[w] = "handle"
    /\ LET result == handle_entity(Unwrap(cur[w]), sources, acc[w])
       IN  /\ result.ok
           /\ acc' = [acc EXCEPT ![w] = result.value]
    /\ cur' = [cur EXCEPT ![w] = None]
    /\ wpc' = [wpc EXCEPT ![w] = "recv"]
    /\ handledBy' = [handledBy EXCEPT ![EntityIndex(Unwrap(cur[w]))] = Append(@, w)]
    /\ UNCHANGED <<dump, sources, nWorkers, sent, chan, closed, live, pc,
                   outProducts, outOrganisations, runResult, failure,
                   notPipeVars>>

\* A return after which the accumulators are merged whatever has failed.
Return_whatever_failed(w) ==
    /\ wpc[w] = "recv"
    /\ chan = <<>> /\ closed
    /\ wpc' = [wpc EXCEPT ![w] = "returned"]
    /\ pc' = IF \A v \in Workers \ {w} : wpc[v] \in {"returned", "failed"}
             THEN "merge" ELSE pc
    /\ UNCHANGED <<dump, sources, nWorkers, sent, chan, closed, cur, acc, live,
                   outProducts, outOrganisations, runResult, handledBy, failure,
                   notPipeVars>>

\* A worker finds the channel empty and closed and returns its accumulator.
Return(w) ==
    /\ wpc[w] = "recv"
    /\ chan = <<>> /\ closed
    /\ wpc' = [wpc EXCEPT ![w] = "returned"]
    /\ pc' = IF failure = None /\ \A v \in Workers \ {w} : wpc[v] = "returned"
             THEN "merge" ELSE pc
    /\ UNCHANGED <<dump, sources, nWorkers, sent, chan, closed, cur, acc, live,
                   outProducts, outOrganisations, runResult, handledBy, failure,
                   notPipeVars>>

\* Two of the accumulators returned are merged, `j` into `i`.
Merge(i, j) ==
    /\ pc = "merge"
    /\ i \in live /\ j \in live /\ i # j
    /\ acc' = [acc EXCEPT ![i] = merge(acc[i], acc[j]), ![j] = CondensingCollector_default]
    /\ live' = live \ {j}
    /\ UNCHANGED <<dump, sources, nWorkers, sent, chan, closed, wpc, cur, pc,
                   outProducts, outOrganisations, runResult, handledBy, failure,
                   notPipeVars>>

\* A finalize on one of the accumulators, merged with the others or not.
Finalize_unmerged ==
    /\ pc = "merge"
    /\ \E i \in live :
        /\ outProducts' = Some(finalize_products(acc[i]))
        /\ outOrganisations' = Some(acc[i].organisations)
    /\ runResult' = Some("Ok")
    /\ pc' = "done"
    /\ UNCHANGED <<dump, sources, nWorkers, sent, chan, closed, wpc, cur, acc, live,
                   handledBy, failure, notPipeVars>>

\* CondensingProcessor::finalize on the one accumulator left.
Finalize ==
    /\ pc = "merge"
    /\ \E i \in live :
        /\ live = {i}
        /\ outProducts' = Some(finalize_products(acc[i]))
        /\ outOrganisations' = Some(acc[i].organisations)
    /\ runResult' = Some("Ok")
    /\ pc' = "done"
    /\ UNCHANGED <<dump, sources, nWorkers, sent, chan, closed, wpc, cur, acc, live,
                   handledBy, failure,
                   notPipeVars>>

Next ==
    \/ Send
    \/ Close
    \/ \E w \in Workers : Recv(w)
    \/ \E w \in Workers : Handle(w)
    \/ \E w \in Workers : Return(w)
    \/ \E i, j \in Workers : Merge(i, j)
    \/ Finalize

Init == PipeInit /\ MergeIdle /\ HandleIdle /\ LoadIdle /\ FtiIdle /\ FinalIdle /\ CollectIdle

Spec == Init /\ [][Next]_vars

(***************************************************************************)
(* Merging accumulators: three accumulators are merged, two at a time, in  *)
(* any order and grouping.                                                 *)
(***************************************************************************)
AccIds == {1, 2, 3}

\* The sources built from the datasets when all of them are filled.
FullSources ==
    CondensingSources_load(
        CHOOSE config \in ValidConfigs :
            /\ config.wikidata_cache_path.contents # Wikidata_default
            /\ config.bcorp_path.contents # <<>>
            /\ config.tco_path.contents # <<>>
            /\ config.fashion_transparency_index_path.contents # <<>>).value

\* The records the accumulators of the model are filled with: those handle_entity
\* makes of the entities of the dumps.
PoolCollector ==
    LET all == {handle_entity(e, FullSources, CondensingCollector_default).value :
                    e \in Variants1 \cup Variants2 \cup Variants3}
    IN  [products      |-> UNION {Range(c.products) : c \in all},
         organisations |-> UNION {Range(c.organisations) : c \in all}]

ProductPool == {p \in PoolCollector.products : p.category # None}

OrganisationPool == {o \in PoolCollector.organisations : o.id = Q(1) /\ o.websites # <<>>}

Accumulators ==
    { [products |-> ps, organisations |-> os] :
        ps \in SeqUpTo(ProductPool, MaxAccLen), os \in SeqUpTo(OrganisationPool, MaxAccLen) }

MergeInit ==
    /\ mOrig \in [AccIds -> Accumulators]
    /\ mAcc = mOrig
    /\ mParts = [i \in AccIds |-> {i}]
    /\ mLive = AccIds

\* `other` = accumulator j is merged into `self` = accumulator i and is gone.
MergeStep(i, j) ==
    /\ i \in mLive /\ j \in mLive /\ i # j
    /\ mAcc' = [mAcc EXCEPT ![i] = merge(mAcc[i], mAcc[j]),
                            ![j] = CondensingCollector_default]
    /\ mParts' = [mParts EXCEPT ![i] = @ \cup mParts[j], ![j] = {}]
    /\ mLive' = mLive \ {j}
    /\ UNCHANGED <<mOrig, notMergeVars>>

InitMerge == MergeInit /\ PipeIdle /\ HandleIdle /\ LoadIdle /\ FtiIdle /\ FinalIdle /\ CollectIdle

NextMerge == \E i, j \in AccIds : MergeStep(i, j)

SpecMerge == InitMerge /\ [][NextMerge]_vars

(***************************************************************************)
(* The run of the pipeline with its failures: the reader fails on a line   *)
(* of the dump, a worker ends abnormally while it handles an entity.  The  *)
(* producer drops its end of the channel whenever it stops, which closes   *)
(* the channel; the workers left drain the channel and return, and the run *)
(* ends with the first failure, without merge and finalize.                *)
(***************************************************************************)
\* The dumps of these runs: the three entities of the example, in every order.
RunDumps ==
    { d \in Dumps :
        Range(d) = { Item(Q(1), En("Fairphone"), En("A company"), None,
                          Some(<<Url(TRUE, FairphoneCom)>>), FALSE),
                     Item(Q(2), En("Fairphone 4"), En("A phone"), Some(<<Q(1)>>), None, TRUE),
                     Item(Q(3), En("Thing"), <<>>, None, None, FALSE) } }

\* The first failure of a run is the one it reports.
FirstFailure(kind) == IF failure = None THEN Some(kind) ELSE failure

\* A reader that fails and leaves the channel open.
ReaderFail_open ==
    /\ pc = "stream" /\ ~closed
    /\ failure = None
    /\ failure' = FirstFailure("Reader")
    /\ UNCHANGED <<dump, sources, nWorkers, sent, chan, closed, wpc, cur, acc, live, pc,
                   outProducts, outOrganisations, runResult, handledBy, notPipeVars>>

\* The reader fails (I/O, decoding, compression) and the producer stops.
ReaderFail ==
    /\ pc = "stream" /\ ~closed
    /\ closed' = TRUE
    /\ failure' = FirstFailure("Reader")
    /\ UNCHANGED <<dump, sources, nWorkers, sent, chan, wpc, cur, acc, live, pc,
                   outProducts, outOrganisations, runResult, handledBy, notPipeVars>>

\* A worker ends abnormally while it handles an entity: its join fails.
WorkerFail(w) ==
    /\ pc = "stream"
    /\ wpc[w] = "handle"
    /\ wpc' = [wpc EXCEPT ![w] = "failed"]
    /\ cur' = [cur EXCEPT ![w] = None]
    /\ failure' = FirstFailure("Join")
    /\ UNCHANGED <<dump, sources, nWorkers, sent, chan, closed, acc, live, pc,
                   outProducts, outOrganisations, runResult, handledBy, notPipeVars>>

\* No worker is left to receive: the send of the producer fails and it stops.
SendFail ==
    /\ pc = "stream" /\ ~closed
    /\ sent < Len(dump)
    /\ \A w \in Workers : wpc[w] = "failed"
    /\ closed' = TRUE
    /\ failure' = FirstFailure("Channel")
    /\ UNCHANGED <<dump, sources, nWorkers, sent, chan, wpc, cur, acc, live, pc,
                   outProducts, outOrganisations, runResult, handledBy, notPipeVars>>

\* The producer has stopped and every worker has returned or failed: the run ends
\* with the failure.
Abort ==
    /\ pc = "stream" /\ closed
    /\ failure # None
    /\ \A w \in Workers : wpc[w] \in {"returned", "failed"}
    /\ pc' = "failed"
    /\ runResult' = Some("Err")
    /\ UNCHANGED <<dump, sources, nWorkers, sent, chan, closed, wpc, cur, acc, live,
                   outProducts, outOrganisations, handledBy, failure, notPipeVars>>

InitRun == Init /\ dump \in RunDumps /\ sources = FullSources

NextRun ==
    \/ Send
    \/ Close
    \/ \E w \in Workers : Recv(w)
    \/ \E w \in Workers : Handle(w)
    \/ \E w \in Workers : Return(w)
    \/ \E i, j \in Workers : Merge(i, j)
    \/ Finalize
    \/ ReaderFail
    \/ \E w \in Workers : WorkerFail(w)
    \/ SendFail
    \/ Abort

SpecRun == InitRun /\ [][NextRun]_vars

\* The scheduler runs every task that can take a step: the producer, each worker,
\* and the task that merges and finalizes.  Nothing makes a failure happen.
Fairness ==
    /\ WF_vars(Send) /\ WF_vars(Close) /\ WF_vars(SendFail) /\ WF_vars(Abort)
    /\ \A w \in 1..MaxWorkers :
        /\ WF_vars(w \in Workers /\ Recv(w))
        /\ WF_vars(w \in Workers /\ Handle(w))
        /\ WF_vars(w \in Workers /\ Return(w))
    /\ WF_vars(\E i, j \in Workers : Merge(i, j))
    /\ WF_vars(Finalize)

SpecLive == InitRun /\ [][NextRun]_vars /\ Fairness

(***************************************************************************)
(* Handling one entity: handle_entity on any entity of the dumps, under    *)
(* any sources, into an empty or a filled collector.                       *)
(***************************************************************************)
Entities == Variants1 \cup Variants2 \cup Variants3

FilledCollector ==
    [products      |-> <<CHOOSE p \in ProductPool : TRUE>>,
     organisations |-> <<CHOOSE o \in OrganisationPool : TRUE>>]

HandleCall ==
    /\ handled = None
    /\ \E entity \in Entities, config \in ValidConfigs,
       before \in {CondensingCollector_default, FilledCollector} :
        LET srcs == CondensingSources_load(config).value
        IN  /\ handled' = Some([entity  |-> entity,
                                sources |-> srcs,
                                before  |-> before,
                                result  |-> handle_entity(entity, srcs, before)])
            /\ UNCHANGED notHandleVars

InitHandle == HandleIdle /\ PipeIdle /\ MergeIdle /\ LoadIdle /\ FtiIdle /\ FinalIdle /\ CollectIdle

NextHandle == HandleCall

SpecHandle == InitHandle /\ [][NextHandle]_vars

(***************************************************************************)
(* Loading the datasets: every load function, on a path in any state.      *)
(***************************************************************************)
\* A score dataset in which the id 1 is repeated.
FtiRepeated == <<FtiEntry(Some(1), "Fairphone", 5), FtiEntry(Some(1), "Fairphone BV", 6)>>

\* Name-matching maps: an empty one, one with a match and a name left unmatched,
\* one whose match is no Wikidata id.
MatchData ==
    { <<>>,
      <<NameMatching("Fairphone", Some([wiki_id |-> Q(1)])), NameMatching("Nobody", None)>>,
      <<NameMatching("Broken", Some([wiki_id |-> <<"X", 1>>]))>> }

EuEcolabelData ==
    { <<[vat_number |-> Some("NL01"), product_or_service_name |-> "Fairphone"],
        [vat_number |-> None, product_or_service_name |-> "Nobody"]>> }

Files(data) == {File(state, contents) : state \in PathStates, contents \in data}

Configs ==
    [wikidata_source_path            : Files({<<>>}),
     wikidata_cache_path             : Files(CacheData),
     bcorp_path                      : Files(BCorpData),
     tco_path                        : Files(TcoData),
     fashion_transparency_index_path : Files(FtiData \cup {FtiRepeated})]

Loaded(op, args, result) == Some([op |-> op, args |-> args, result |-> result])

LoadBCorp ==
    /\ loaded = None
    /\ \E path \in Files(BCorpData) :
        loaded' = Loaded("BCorpAdvisor::load", <<path>>, BCorpAdvisor_load(path))
    /\ UNCHANGED notLoadVars

LoadTco ==
    /\ loaded = None
    /\ \E path \in Files(TcoData) :
        loaded' = Loaded("TcoAdvisor::load", <<path>>, TcoAdvisor_load(path))
    /\ UNCHANGED notLoadVars

LoadFti ==
    /\ loaded = None
    /\ \E path \in Files(FtiData \cup {FtiRepeated}) :
        loaded' = Loaded("FashionTransparencyIndexAdvisor::load", <<path>>,
                         FashionTransparencyIndexAdvisor_load(path))
    /\ UNCHANGED notLoadVars

LoadWikidata ==
    /\ loaded = None
    /\ \E path \in Files(CacheData) :
        loaded' = Loaded("WikidataAdvisor::load", <<path>>, WikidataAdvisor_load(path))
    /\ UNCHANGED notLoadVars

LoadMatches ==
    /\ loaded = None
    /\ \E path \in Files(MatchData) :
        loaded' = Loaded("SustainityMatchesAdvisor::load", <<path>>,
                         SustainityMatchesAdvisor_load(path))
    /\ UNCHANGED notLoadVars

LoadEuEcolabel ==
    /\ loaded = None
    /\ \E original_path \in Files(EuEcolabelData), match_path \in Files(MatchData) :
        loaded' = Loaded("EuEcolabelAdvisor::load", <<original_path, match_path>>,
                         EuEcolabelAdvisor_load(original_path, match_path))
    /\ UNCHANGED notLoadVars

LoadEssentials ==
    /\ loaded = None
    /\ \E config \in Configs :
        /\ config.wikidata_cache_path = File("Valid", Wikidata_default)
        /\ config.bcorp_path = File("Valid", <<>>)
        /\ config.tco_path = File("Valid", <<>>)
        /\ config.fashion_transparency_index_path = File("Valid", <<>>)
        /\ loaded' = Loaded("CondensingEssentials::load", <<config>>,
                            CondensingEssentials_load(config))
    /\ UNCHANGED notLoadVars

LoadSources ==
    /\ loaded = None
    /\ \E config \in Configs :
        /\ config.wikidata_source_path = File("Valid", <<>>)
        /\ loaded' = Loaded("CondensingSources::load", <<config>>,
                            CondensingSources_load(config))
    /\ UNCHANGED notLoadVars

InitLoad == LoadIdle /\ PipeIdle /\ MergeIdle /\ HandleIdle /\ FtiIdle /\ FinalIdle /\ CollectIdle

NextLoad ==
    \/ LoadBCorp
    \/ LoadTco
    \/ LoadFti
    \/ LoadWikidata
    \/ LoadMatches
    \/ LoadEuEcolabel
    \/ LoadEssentials
    \/ LoadSources

SpecLoad == InitLoad /\ [][NextLoad]_vars

(***************************************************************************)
(* Building the Fashion Transparency Index advisor from any score dataset  *)
(* of up to MaxFtiEntries entries.                                         *)
(***************************************************************************)
FtiEntries ==
    {FtiEntry(id, "Brand", score) : id \in {None, Some(1), Some(2)}, score \in {5, 7}}

FtiInit ==
    /\ ftiSource \in SeqUpTo(FtiEntries, MaxFtiEntries)
    /\ ftiResult = None

FtiNew ==
    /\ ftiResult = None
    /\ ftiResult' = Some(FashionTransparencyIndexAdvisor_new(ftiSource))
    /\ UNCHANGED <<ftiSource, notFtiVars>>

InitFti == FtiInit /\ PipeIdle /\ MergeIdle /\ HandleIdle /\ LoadIdle /\ FinalIdle /\ CollectIdle

NextFti == FtiNew

SpecFti == InitFti /\ [][NextFti]_vars

(***************************************************************************)
(* C1.  CondensingCollector::merge.                                        *)
(***************************************************************************)
ProductSet(collector) == Range(collector.products)

OrganisationSet(collector) == Range(collector.organisations)

SameSets(c, d) ==
    /\ ProductSet(c) = ProductSet(d)
    /\ OrganisationSet(c) = OrganisationSet(d)

\* C1: merging accumulators yields the union of their product sets and of their
\* organisation sets: every accumulator holds, as sets, the union of the
\* accumulators given that were merged into it; for any two accumulators given,
\* merging B into A and A into B give the union of A's and B's sets; and for the
\* three given, (A merge B) merge C and A merge (B merge C) hold the same sets.
C1_MergeIsUnion ==
    /\ \A i \in mLive :
        /\ ProductSet(mAcc[i]) = UNION {ProductSet(mOrig[k]) : k \in mParts[i]}
        /\ OrganisationSet(mAcc[i]) = UNION {OrganisationSet(mOrig[k]) : k \in mParts[i]}
    /\ \A a, b \in DOMAIN mOrig :
        /\ ProductSet(merge(mOrig[a], mOrig[b])) = ProductSet(mOrig[a]) \cup ProductSet(mOrig[b])
        /\ OrganisationSet(merge(mOrig[a], mOrig[b]))
             = OrganisationSet(mOrig[a]) \cup OrganisationSet(mOrig[b])
        /\ SameSets(merge(mOrig[a], mOrig[b]), merge(mOrig[b], mOrig[a]))
    /\ \A a, b, c \in DOMAIN mOrig :
        SameSets(merge(merge(mOrig[a], mOrig[b]), mOrig[c]),
                 merge(mOrig[a], merge(mOrig[b], mOrig[c])))

\* C1's case: three accumulators with different contents, none of them empty of
\* both kinds, have all been merged into one.
C1_Witness ==
    /\ \E i \in AccIds : mLive = {i} /\ mParts[i] = AccIds
    /\ mOrig[1].products # <<>> /\ mOrig[2].products # <<>>
    /\ mOrig[1].products # mOrig[2].products
    /\ mOrig[2].organisations # <<>> /\ mOrig[3].organisations # <<>>

(***************************************************************************)
(* C2.  Certification propagation and the order of the stream.             *)
(***************************************************************************)
\* One worker handling `stream` from its first entity to its last.
RECURSIVE SequentialRun(_, _)
SequentialRun(stream, srcs) ==
    IF stream = <<>> THEN CondensingCollector_default
    ELSE handle_entity(stream[Len(stream)], srcs,
                       SequentialRun(SubSeq(stream, 1, Len(stream) - 1), srcs)).value

\* The streams that hold the entities of `stream` in another order.
Reorderings(stream) ==
    {[i \in 1..Len(stream) |-> stream[f[i]]] : f \in Perms(Len(stream))}

\* Where the entity with this id is in the stream (0: nowhere).
PositionOf(id) ==
    IF \E i \in 1..Len(dump) : dump[i].id = id
    THEN CHOOSE i \in 1..Len(dump) : dump[i].id = id
    ELSE 0

Done == pc = "done" /\ runResult = Some("Ok")

\* C2: the Certifications of every product written are those the product gets when
\* the same entities are streamed in any other order (to one worker): whether an
\* organisation comes before or after its product makes no difference.
C2_PropagationOrderIndependent ==
    Done =>
        \A stream \in Reorderings(dump) :
            LET other == finalize_products(SequentialRun(stream, sources))
            IN  /\ Len(other) = Len(Unwrap(outProducts))
                /\ \A p \in Range(Unwrap(outProducts)) :
                    \E q \in Range(other) :
                        q.id = p.id /\ q.certifications = p.certifications

\* C2's case: a run is over in which the organisation Q1 came after its product Q2
\* in the stream, and Q2 was written with the certifications of Q1.
C2_Witness ==
    /\ Done
    /\ PositionOf(Q(1)) > PositionOf(Q(2)) /\ PositionOf(Q(2)) > 0
    /\ \E p \in Range(Unwrap(outProducts)) :
        /\ p.id = Q(2)
        /\ p.manufacturer_ids = Some(<<Q(1)>>)
        /\ p.certifications.bcorp /\ p.certifications.tco
        /\ p.certifications.fti = Some(5)

(***************************************************************************)
(* C3, C5.  What handle_entity adds to the collector.                      *)
(***************************************************************************)
\* The entity has a manufacturer relation.
HasManufacturerRelation(entity) ==
    entity.kind = "Item" /\ IsSome(entity.manufacturer)

\* The entity's id is a known manufacturer id, or it has an official website.
HasOrganisationSignal(entity, srcs) ==
    \/ entity.id \in srcs.cache.manufacturer_ids
    \/ entity.kind = "Item" /\ IsSome(entity.websites)

HasLabel(entity) == entity.kind = "Item" /\ LANG_EN \in DOMAIN entity.labels

\* `after` is `before` and one more record, with the id of the entity.
YieldsOne(before, after, entity) ==
    /\ Len(after) = Len(before) + 1
    /\ SubSeq(after, 1, Len(before)) = before
    /\ after[Len(after)].id = entity.id

\* What the claim says of one call of handle_entity.
YieldsWhatItsSignalsSay(call) ==
    /\ call.result.ok
    /\ HasManufacturerRelation(call.entity) =>
            YieldsOne(call.before.products, call.result.value.products, call.entity)
    /\ HasOrganisationSignal(call.entity, call.sources) =>
            YieldsOne(call.before.organisations, call.result.value.organisations,
                      call.entity)

\* C3 as claimed: every entity with a manufacturer relation yields a Product, every
\* entity with a known manufacturer id or an official website yields an
\* Organisation, an entity with both yields both.
C3_Original ==
    IsSome(handled) => YieldsWhatItsSignalsSay(Unwrap(handled))

\* C3, amended: every item that has a label in LANG_EN yields a Product if it has a
\* manufacturer relation, an Organisation if its id is a known manufacturer id or
\* it has an official website, and both, under its id, if both hold.
C3_LabelledItemYields ==
    (IsSome(handled) /\ HasLabel(Unwrap(handled).entity)) =>
        YieldsWhatItsSignalsSay(Unwrap(handled))

\* C3's case: a labelled item with a manufacturer relation and a website was
\* handled into a filled collector, which now ends with its Product and its
\* Organisation.
C3_Witness ==
    /\ IsSome(handled)
    /\ LET call == Unwrap(handled)
       IN  /\ HasLabel(call.entity)
           /\ HasManufacturerRelation(call.entity)
           /\ HasOrganisationSignal(call.entity, call.sources)
           /\ call.before = FilledCollector
           /\ Len(call.result.value.products) = 2
           /\ Len(call.result.value.organisations) = 2
           /\ call.result.value.products[2].id = call.entity.id
           /\ call.result.value.organisations[2].id = call.entity.id

\* C5: an item with no label in LANG_EN leaves the collector as it was and
\* handle_entity returns Ok, whatever its relations and the sources; and no call
\* leaves a record with an empty name in the collector.
C5_UnlabelledSkipped ==
    IsSome(handled) =>
        LET call == Unwrap(handled)
        IN  /\ (call.entity.kind = "Item" /\ LANG_EN \notin DOMAIN call.entity.labels) =>
                    (call.result.ok /\ call.result.value = call.before)
            /\ \A r \in ProductSet(call.result.value) \cup OrganisationSet(call.result.value) :
                    r.name # ""

\* C5's case: an item with a website and a known manufacturer id, labelled in
\* another language only, was handled into a filled collector.
C5_Witness ==
    /\ IsSome(handled)
    /\ LET call == Unwrap(handled)
       IN  /\ call.entity.kind = "Item"
           /\ LANG_EN \notin DOMAIN call.entity.labels
           /\ DOMAIN call.entity.labels # {}
           /\ IsSome(call.entity.websites)
           /\ call.entity.id \in call.sources.cache.manufacturer_ids
           /\ call.before = FilledCollector
           /\ call.result.ok

(***************************************************************************)
(* C4.  Records come from qualifying entities only.                        *)
(***************************************************************************)
\* Every product in an accumulator or in the products artifact.
ProductsAnywhere ==
    UNION {ProductSet(acc[w]) : w \in Workers}
        \cup (IF IsSome(outProducts) THEN Range(Unwrap(outProducts)) ELSE {})

\* Every organisation in an accumulator or in the organisations artifact.
OrganisationsAnywhere ==
    UNION {OrganisationSet(acc[w]) : w \in Workers}
        \cup (IF IsSome(outOrganisations) THEN Range(Unwrap(outOrganisations)) ELSE {})

\* C4: at every moment of a run, every product held or written has the id of an
\* entity of the dump with a manufacturer relation, every organisation that of an
\* entity whose id is a known manufacturer id or that has an official website; an
\* entity with none of the three is in no accumulator and in neither artifact.
C4_OnlyQualifyingEntities ==
    /\ \A p \in ProductsAnywhere :
        \E e \in Range(dump) : e.id = p.id /\ HasManufacturerRelation(e)
    /\ \A o \in OrganisationsAnywhere :
        \E e \in Range(dump) : e.id = o.id /\ HasOrganisationSignal(e, sources)
    /\ \A e \in Range(dump) :
        (~HasManufacturerRelation(e) /\ ~HasOrganisationSignal(e, sources)) =>
            /\ \A p \in ProductsAnywhere : p.id # e.id
            /\ \A o \in OrganisationsAnywhere : o.id # e.id

\* C4's case: a run is over whose dump held a labelled item with no manufacturer
\* relation, no website and no known manufacturer id, beside a product and an
\* organisation that were written.
C4_Witness ==
    /\ Done
    /\ \E e \in Range(dump) :
        /\ HasLabel(e)
        /\ ~HasManufacturerRelation(e) /\ ~HasOrganisationSignal(e, sources)
    /\ Len(Unwrap(outProducts)) = 1
    /\ Len(Unwrap(outOrganisations)) = 1

(***************************************************************************)
(* C6.  The end-to-end example.                                            *)
(***************************************************************************)
\* The domains of the official websites of an entity.
DomainsOf(entity) ==
    IF entity.kind = "Item" /\ IsSome(entity.websites)
    THEN {extract_domain_from_url(w) : w \in Range(Unwrap(entity.websites))}
    ELSE {}

\* The dump is the example's: (a) an organisation with a website whose domain is in
\* the certification-by-domain registry, (b) a product whose manufacturer id is
\* (a)'s id and that has no website of its own, (c) an entity with no manufacturer
\* relation and no website.
IsExample(a, b, c) ==
    /\ Range(dump) = {a, b, c}
    /\ a.id # b.id /\ a.id # c.id /\ b.id # c.id
    /\ ~HasManufacturerRelation(a)
    /\ \E d \in DomainsOf(a) : d \in DOMAIN sources.bcorp.domain_to_name
    /\ HasManufacturerRelation(b)
    /\ Unwrap(b.manufacturer) = <<a.id>>
    /\ DomainsOf(b) = {}
    /\ ~HasManufacturerRelation(c)
    /\ DomainsOf(c) = {}

\* The outcome the example promises.
ExampleOutcome(a, b, c) ==
    LET products      == Unwrap(outProducts)
        organisations == Unwrap(outOrganisations)
    IN  /\ Len(products) = 1
        /\ products[1].id = b.id
        /\ products[1].certifications.bcorp
        /\ Len(organisations) = 1
        /\ organisations[1].id = a.id
        /\ \A r \in Range(products) \cup Range(organisations) : r.id # c.id

\* C6 as claimed: every run over a dump of the example writes exactly one Product,
\* certified by the registry, and exactly one Organisation, and (c) in neither.
C6_Original ==
    Done => \A a, b, c \in Range(dump) : IsExample(a, b, c) => ExampleOutcome(a, b, c)

\* C6, amended: every run that ends Ok over a dump of the example in which (a) and
\* (b) have a label in LANG_EN and neither (b)'s nor (c)'s id is a known
\* manufacturer id, writes exactly one Product, (b), certified by the
\* registry, and exactly one Organisation, (a), and (c) in neither; whatever the
\* number of workers, the stream order and the order of the merges.
C6_ExampleLabelled ==
    Done =>
        \A a, b, c \in Range(dump) :
            ( /\ IsExample(a, b, c)
              /\ HasLabel(a) /\ HasLabel(b)
              /\ b.id \notin sources.cache.manufacturer_ids
              /\ c.id \notin sources.cache.manufacturer_ids )
            => ExampleOutcome(a, b, c)

\* C6's case: two workers have run over a dump of the example, labelled, in which
\* the product came first and the organisation last, each worker took a record,
\* and the artifacts are written.
C6_Witness ==
    /\ Done
    /\ nWorkers = 2
    /\ \E a, b, c \in Range(dump) :
        /\ IsExample(a, b, c)
        /\ HasLabel(a) /\ HasLabel(b) /\ HasLabel(c)
        /\ c.id \notin sources.cache.manufacturer_ids
        /\ dump = <<b, c, a>>
        /\ ExampleOutcome(a, b, c)

(***************************************************************************)
(* C7, C8, C9.  Loading datasets whose path or contents are not in order.  *)
(***************************************************************************)
\* The keys the lookups are tried with.
IdUniverse == {Q(n) : n \in 1..4}
DomainUniverse == {FairphoneCom, OtherOrg}

BCorpContainsNothing(index) ==
    \A domains \in SUBSET DomainUniverse : ~BCorpAdvisor_has_domains(index, domains)

TcoContainsNothing(index) ==
    \A id \in IdUniverse : ~TcoAdvisor_has_company(index, id)

FtiContainsNothing(index) ==
    \A id \in IdUniverse :
        /\ ~FashionTransparencyIndexAdvisor_has_company(index, id)
        /\ FashionTransparencyIndexAdvisor_get_cert(index, id) = None

WikidataContainsNothing(index) ==
    \A id \in IdUniverse : ~has_manufacturer_id(index, id) /\ ~has_class_id(index, id)

Missing(path) == path.state = "Inaccessible"

\* C7: a load of the BCorp, TCO, Fashion Transparency Index or Wikidata-cache
\* dataset from a path that is not accessible returns Ok with an index on which
\* every lookup answers false / None; CondensingSources::load returns Ok when each
\* of its datasets is missing or valid, with such an index for each missing one.
C7_MissingDatasetIsEmptyIndex ==
    IsSome(loaded) =>
        LET call == Unwrap(loaded)
            path == call.args[1]
            res  == call.result
        IN  /\ (call.op = "BCorpAdvisor::load" /\ Missing(path)) =>
                    (res.ok /\ BCorpContainsNothing(res.value))
            /\ (call.op = "TcoAdvisor::load" /\ Missing(path)) =>
                    (res.ok /\ TcoContainsNothing(res.value))
            /\ (call.op = "FashionTransparencyIndexAdvisor::load" /\ Missing(path)) =>
                    (res.ok /\ FtiContainsNothing(res.value))
            /\ (call.op = "WikidataAdvisor::load" /\ Missing(path)) =>
                    (res.ok /\ WikidataContainsNothing(res.value))
            /\ ( /\ call.op = "CondensingSources::load"
                 /\ \A f \in {"wikidata_cache_path", "bcorp_path", "tco_path"} :
                        path[f].state \in {"Inaccessible", "Valid"}
                 /\ \/ Missing(path.fashion_transparency_index_path)
                    \/ path.fashion_transparency_index_path \in Files(FtiData) /\
                       path.fashion_transparency_index_path.state = "Valid" ) =>
                    /\ res.ok
                    /\ Missing(path.wikidata_cache_path) => WikidataContainsNothing(res.value.cache)
                    /\ Missing(path.bcorp_path) => BCorpContainsNothing(res.value.bcorp)
                    /\ Missing(path.tco_path) => TcoContainsNothing(res.value.tco)
                    /\ Missing(path.fashion_transparency_index_path) =>
                            FtiContainsNothing(res.value.fti)

\* C7's case: CondensingSources::load has returned for a configuration in which
\* the four datasets are missing.
C7_Witness ==
    /\ IsSome(loaded)
    /\ LET call == Unwrap(loaded)
       IN  /\ call.op = "CondensingSources::load"
           /\ Missing(call.args[1].wikidata_cache_path)
           /\ Missing(call.args[1].bcorp_path)
           /\ Missing(call.args[1].tco_path)
           /\ Missing(call.args[1].fashion_transparency_index_path)
           /\ call.result.ok /\ call.result.warned

\* No id is in two entries of a score dataset.
NoRepeatedId(entries) ==
    \A i, j \in 1..Len(entries) :
        (i # j /\ IsSome(entries[i].wikidata_id)) => entries[i].wikidata_id # entries[j].wikidata_id

\* The optional datasets of CondensingSources.
OptionalPaths ==
    {"wikidata_cache_path", "bcorp_path", "tco_path", "fashion_transparency_index_path"}

\* C8 as claimed: whatever the state of the optional datasets, each of their loads
\* and CondensingSources::load succeed.
C8_Original ==
    IsSome(loaded) =>
        (Unwrap(loaded).op \in {"BCorpAdvisor::load", "TcoAdvisor::load",
                                "FashionTransparencyIndexAdvisor::load",
                                "CondensingSources::load"}
            => Unwrap(loaded).result.ok)

\* C8, amended: only a path that is not accessible is downgraded to a warning and
\* an empty index.  The load of an optional dataset succeeds exactly when its path
\* is not accessible, or its contents are read and parsed (and, for the Fashion
\* Transparency Index, repeat no id); a dataset that is there but cannot be read or
\* parsed makes its load, and CondensingSources::load, return the error.
C8_OnlyMissingIsDowngraded ==
    IsSome(loaded) =>
        LET call == Unwrap(loaded)
            path == call.args[1]
            res  == call.result
            Loads(f) == \/ Missing(f)
                        \/ f.state = "Valid"
            FtiLoads(f) == \/ Missing(f)
                           \/ f.state = "Valid" /\ NoRepeatedId(f.contents)
        IN  /\ call.op \in {"BCorpAdvisor::load", "TcoAdvisor::load"} =>
                /\ res.ok = Loads(path)
                /\ res.ok => (res.warned = Missing(path))
            /\ call.op = "FashionTransparencyIndexAdvisor::load" =>
                /\ res.ok = FtiLoads(path)
                /\ res.ok => (res.warned = Missing(path))
            /\ call.op = "CondensingSources::load" =>
                /\ res.ok = ( /\ Loads(path.wikidata_cache_path)
                              /\ Loads(path.bcorp_path)
                              /\ Loads(path.tco_path)
                              /\ FtiLoads(path.fashion_transparency_index_path) )
                /\ res.ok =>
                    (res.warned = \E f \in OptionalPaths \ {"wikidata_cache_path"} :
                                        Missing(path[f]))

\* C8's case: CondensingSources::load has returned an error for a configuration
\* in which only the TCO dataset, which is there, does not parse.
C8_Witness ==
    /\ IsSome(loaded)
    /\ LET call == Unwrap(loaded)
       IN  /\ call.op = "CondensingSources::load"
           /\ call.args[1].tco_path.state = "Malformed"
           /\ \A f \in OptionalPaths \ {"tco_path"} : call.args[1][f].state = "Valid"
           /\ NoRepeatedId(call.args[1].fashion_transparency_index_path.contents)
           /\ ~call.result.ok
           /\ call.result.error.kind = "Serde"

WellFormedMatches(map) ==
    \A i \in 1..Len(map) : IsSome(map[i].match) => Unwrap(map[i].match).wiki_id[1] = "Q"

RepeatedIds(source) ==
    { Unwrap(source[i].wikidata_id) :
        i \in { k \in 1..Len(source) :
                  /\ IsSome(source[k].wikidata_id)
                  /\ \E j \in 1..Len(source) :
                        j # k /\ source[j].wikidata_id = source[k].wikidata_id } }

\* C10: new returns an index if and only if no id is in more than one entry of
\* the score dataset, and the index then holds every entry that has an id, under
\* the string form of its id; otherwise it returns one RepeatedIds error with
\* exactly the ids that are in more than one entry, and no index.
C10_RepeatedIdsReported ==
    IsSome(ftiResult) =>
        LET res == Unwrap(ftiResult)
        IN  /\ res.ok = (RepeatedIds(ftiSource) = {})
            /\ res.ok =>
                /\ DOMAIN res.value.entries =
                      {to_str_id(Unwrap(e.wikidata_id)) :
                          e \in {x \in Range(ftiSource) : IsSome(x.wikidata_id)}}
                /\ \A e \in Range(ftiSource) :
                      IsSome(e.wikidata_id) =>
                          res.value.entries[to_str_id(Unwrap(e.wikidata_id))] = e
            /\ ~res.ok =>
                /\ res.error = [kind |-> "SourcesCheck", repeated_ids |-> RepeatedIds(ftiSource)]
                /\ "value" \notin DOMAIN res

\* C10's case: new has returned the error for a dataset in which one id is in
\* three entries and an entry has no id.
C10_Witness ==
    /\ IsSome(ftiResult)
    /\ \E i, j, k \in 1..Len(ftiSource) :
        /\ i < j /\ j < k
        /\ ftiSource[i].wikidata_id = Some(1)
        /\ ftiSource[j].wikidata_id = Some(1)
        /\ ftiSource[k].wikidata_id = Some(1)
        /\ ftiSource[i].score # ftiSource[j].score
    /\ ~Unwrap(ftiResult).ok
    /\ Unwrap(ftiResult).error.repeated_ids = {1}

(***************************************************************************)
(* C11, C12.  The certifications finalize gives to the products.           *)
(***************************************************************************)
\* The manufacturer ids of a product.
ManufacturersOf(product) ==
    IF IsSome(product.manufacturer_ids) THEN Unwrap(product.manufacturer_ids) ELSE <<>>

\* The organisations of the output that are manufacturers of the product.
ManufacturerOrganisations(product) ==
    {o \in Range(Unwrap(outOrganisations)) : o.id \in Range(ManufacturersOf(product))}

\* C11: after finalize, each flag of every product written is true if and only if
\* one of the product's manufacturer ids is the id of an organisation of the merged
\* accumulator whose flag is true; a product none of whose manufacturer ids is the
\* id of an organisation has the empty Certifications.
C11_FlagsIffCertifiedManufacturer ==
    Done =>
        \A p \in Range(Unwrap(outProducts)) :
            LET orgs == ManufacturerOrganisations(p)
            IN  /\ p.certifications.bcorp = (\E o \in orgs : o.certifications.bcorp)
                /\ p.certifications.tco = (\E o \in orgs : o.certifications.tco)
                /\ orgs = {} => p.certifications = Certifications_default

\* C11's case: a product of two manufacturers, both of them organisations of the
\* output, was written with the flags of the first, which the second does not have.
C11_Witness ==
    /\ Done
    /\ \E p \in Range(Unwrap(outProducts)) :
        /\ Len(ManufacturersOf(p)) = 2
        /\ \E o1, o2 \in ManufacturerOrganisations(p) :
            /\ o1.id = ManufacturersOf(p)[1] /\ o2.id = ManufacturersOf(p)[2]
            /\ o1.certifications.bcorp /\ ~o2.certifications.bcorp
            /\ o1.certifications.tco /\ ~o2.certifications.tco
        /\ p.certifications.bcorp /\ p.certifications.tco

\* The score the organisation made of the entity with this id has, if the dump
\* holds an entity with this id that is made an organisation.
ScoreOfManufacturer(id) ==
    IF \E e \in Range(dump) :
            e.id = id /\ HasLabel(e) /\ HasOrganisationSignal(e, sources)
    THEN FashionTransparencyIndexAdvisor_get_score(sources.fti, id)
    ELSE None

\* The score of the last of the manufacturer ids that has one.
RECURSIVE LastScore(_)
LastScore(manufacturer_ids) ==
    IF manufacturer_ids = <<>> THEN None
    ELSE LET n == Len(manufacturer_ids)
         IN  IF IsSome(ScoreOfManufacturer(manufacturer_ids[n]))
             THEN ScoreOfManufacturer(manufacturer_ids[n])
             ELSE LastScore(SubSeq(manufacturer_ids, 1, n - 1))

FinalStreams == UNION {[1..n -> Entities] : n \in 0..MaxFinalLen}

FinalInit ==
    /\ \E stream \in FinalStreams : fCollector = SequentialRun(stream, FullSources)
    /\ fBefore \in {[products |-> Absent, organisations |-> Absent],
                    [products |-> Stale, organisations |-> Stale]}
    /\ fProducts = fBefore.products
    /\ fOrganisations = fBefore.organisations
    /\ fResult = None

FinalizeCall ==
    /\ fResult = None
    /\ \E fault \in FinalizeFaults, truncated \in BOOLEAN :
        LET after == finalize(fCollector, fBefore, fault, truncated)
        IN  /\ fProducts' = after.products
            /\ fOrganisations' = after.organisations
            /\ fResult' = Some(after.result)
    /\ UNCHANGED <<fCollector, fBefore, notFinalVars>>

InitFinal == FinalInit /\ PipeIdle /\ MergeIdle /\ HandleIdle /\ LoadIdle /\ FtiIdle /\ CollectIdle

NextFinal == FinalizeCall

SpecFinal == InitFinal /\ [][NextFinal]_vars

(***************************************************************************)
(* C13.  A finalize that fails.                                            *)
(***************************************************************************)
\* C13 as claimed: when finalize returns an error, neither the products artifact
\* nor the organisations artifact has been written or replaced.
C13_Original ==
    (IsSome(fResult) /\ ~Unwrap(fResult).ok) =>
        (fProducts = fBefore.products /\ fOrganisations = fBefore.organisations)

(***************************************************************************)
(* C20.  Organisations that share an id.                                   *)
(***************************************************************************)
\* The last of the organisations of the collector with this id.
LastOrganisation(id) ==
    LET at == {i \in 1..Len(fCollector.organisations) : fCollector.organisations[i].id = id}
    IN  fCollector.organisations[CHOOSE i \in at : \A j \in at : j <= i]

\* The manufacturer ids of the product that are ids of organisations.
KnownManufacturers(product) ==
    {id \in Range(ManufacturersOf(product)) :
        \E o \in Range(fCollector.organisations) : o.id = id}

\* C20: finalize writes every organisation of the collector, those that share an
\* id too, and gives the products the Certifications of the last organisation of
\* each id: a flag of a product is set exactly when the last organisation of one
\* of its manufacturer ids has it, and a product with one manufacturer id gets
\* the Certifications of the last organisation with that id.
C20_LastDuplicateWins ==
    (IsSome(fResult) /\ Unwrap(fResult).ok) =>
        /\ fOrganisations = Written(fCollector.organisations)
        /\ fProducts.kind = "Written"
        /\ Len(fProducts.contents) = Len(fCollector.products)
        /\ \A i \in 1..Len(fCollector.products) :
            LET p    == fProducts.contents[i]
                from == KnownManufacturers(fCollector.products[i])
            IN  /\ p.id = fCollector.products[i].id
                /\ p.certifications.bcorp =
                        (\E id \in from : LastOrganisation(id).certifications.bcorp)
                /\ p.certifications.tco =
                        (\E id \in from : LastOrganisation(id).certifications.tco)
                /\ \A id \in from :
                        from = {id} => p.certifications = LastOrganisation(id).certifications

\* C20's case: the collector holds two organisations with the id Q1, the first
\* certified by BCorp and the last not, and a product of Q1; finalize has written
\* both organisations and the product without the BCorp flag.
C20_Witness ==
    /\ IsSome(fResult) /\ Unwrap(fResult).ok
    /\ Len(fCollector.organisations) = 2
    /\ fCollector.organisations[1].id = Q(1) /\ fCollector.organisations[2].id = Q(1)
    /\ fCollector.organisations[1].certifications.bcorp
    /\ ~fCollector.organisations[2].certifications.bcorp
    /\ fOrganisations = Written(fCollector.organisations)
    /\ \E p \in Range(fProducts.contents) :
        /\ p.manufacturer_ids = Some(<<Q(1)>>)
        /\ ~p.certifications.bcorp /\ p.certifications.tco

(***************************************************************************)
(* C14.  A failure before the finalizer.                                   *)
(***************************************************************************)
\* C14: once the reader or a worker has failed, the accumulators are not merged,
\* finalize is not run and no artifact is written, whatever the workers have
\* accumulated; the run ends with one error, the first failure.
C14_FailureWritesNothing ==
    /\ failure # None =>
        /\ pc \in {"stream", "failed"}
        /\ outProducts = None /\ outOrganisations = None
        /\ runResult \in {None, Some("Err")}
    /\ pc = "failed" => (failure # None /\ runResult = Some("Err"))
    /\ runResult = Some("Err") => pc = "failed"

\* C14's case: the reader failed after a worker had accumulated a record; the run
\* has ended with the error and nothing is written.
C14_Witness ==
    /\ pc = "failed" /\ runResult = Some("Err")
    /\ failure = Some("Reader")
    /\ sent < Len(dump)
    /\ \E w \in Workers : wpc[w] = "returned" /\ acc[w] # CondensingCollector_default
    /\ outProducts = None /\ outOrganisations = None

(***************************************************************************)
(* C15.  When the finalizer runs.                                          *)
(***************************************************************************)
\* The step is one of finalize: an artifact changes or the run gets done.
FinalizerRuns ==
    \/ outProducts' # outProducts
    \/ outOrganisations' # outOrganisations
    \/ pc # "done" /\ pc' = "done"

\* C15: finalize runs at most once in a run (never when an artifact is written
\* or the run has a result), and only when the producer has closed the channel,
\* the channel is empty, every worker has returned its accumulator and one
\* accumulator is left of the merge; no producer or worker step comes after it.
C15_FinalizerOnceAfterMerge ==
    [][ /\ FinalizerRuns =>
            /\ outProducts = None /\ outOrganisations = None /\ runResult = None
            /\ closed /\ chan = <<>>
            /\ \A w \in Workers : wpc[w] = "returned" /\ cur[w] = None
            /\ Cardinality(live) = 1
            /\ \A w \in Workers \ live : acc[w] = CondensingCollector_default
            /\ pc' = "done" /\ IsSome(outProducts') /\ IsSome(outOrganisations')
        /\ pc = "done" => UNCHANGED pipeVars ]_vars

\* C15's case: a run of two workers is done; both have returned, one accumulator
\* is left and the artifacts are written.
C15_Witness ==
    /\ pc = "done" /\ nWorkers = 2
    /\ closed /\ chan = <<>>
    /\ \A w \in Workers : wpc[w] = "returned"
    /\ Cardinality(live) = 1
    /\ IsSome(outProducts) /\ IsSome(outOrganisations)
    /\ Unwrap(outProducts) # <<>>

(***************************************************************************)
(* C16.  The bounded channel.                                              *)
(***************************************************************************)
\* C16: the channel never holds more than ChanCap entities; an entity is sent only
\* when the channel is open and not full, a worker receives only when the channel
\* is not empty, the entity at its head, and a worker returns only when the
\* channel is empty and closed.
C16_ChannelBounded ==
    /\ [](Len(chan) <= ChanCap)
    /\ [][ /\ Len(chan') > Len(chan) =>
                /\ Len(chan) < ChanCap /\ ~closed
                /\ chan' = Append(chan, dump[sent + 1])
           /\ \A w \in Workers :
                /\ (wpc[w] = "recv" /\ wpc'[w] = "handle") =>
                        /\ chan # <<>>
                        /\ cur'[w] = Some(Head(chan)) /\ chan' = Tail(chan)
                /\ (wpc[w] # "returned" /\ wpc'[w] = "returned") =>
                        (chan = <<>> /\ closed) ]_vars

\* C16's case: the channel is full while the producer has more to send and every
\* worker is busy handling: the producer waits.
C16_Witness ==
    /\ pc = "stream" /\ ~closed
    /\ Len(chan) = ChanCap /\ sent < Len(dump)
    /\ \A w \in Workers : wpc[w] = "handle"

(***************************************************************************)
(* C17.  Termination.                                                      *)
(***************************************************************************)
\* The run is over: done or ended by a failure, the channel closed and every
\* worker returned or failed.
RunOver ==
    /\ pc \in {"done", "failed"}
    /\ closed
    /\ \A w \in Workers : wpc[w] \in {"returned", "failed"}

\* C17: under fair scheduling every run ends; once the producer has stopped, on
\* success or on a failure, the channel is closed, and every worker then drains the
\* channel and returns (or has failed).
C17_Terminates ==
    /\ <>RunOver
    /\ [](failure = Some("Reader") => closed)
    /\ [](closed => <>(\A w \in Workers : wpc[w] \in {"returned", "failed"}))

\* C17's case: the reader failed while the channel held an entity; the workers
\* have drained the channel and returned, and the run is over.
C17_Witness ==
    /\ RunOver /\ pc = "failed"
    /\ failure = Some("Reader")
    /\ 0 < sent /\ sent < Len(dump)
    /\ \A i \in 1..sent : Len(handledBy[i]) = 1
    /\ \A w \in Workers : wpc[w] = "returned"

(***************************************************************************)
(* C18.  Every entity is handled exactly once.                             *)
(***************************************************************************)
\* The entities the worker has handled, in the order of the dump.
HandledBy(w) ==
    SelectSeq(dump, LAMBDA e : w \in Range(handledBy[EntityIndex(e)]))

\* The collectors hold the same products and the same organisations, up to order.
SameRecords(a, b) ==
    /\ Len(a.products) = Len(b.products) /\ ProductSet(a) = ProductSet(b)
    /\ Len(a.organisations) = Len(b.organisations)
    /\ OrganisationSet(a) = OrganisationSet(b)

\* C18: no entity is handled twice; while the workers run, the accumulator of each
\* holds the records of the entities that worker has handled and no other; when
\* the run is done every entity of the dump was handled exactly once and the
\* merged accumulator holds the records one worker makes of the whole dump in
\* sequence, up to order.
C18_EachEntityOnce ==
    /\ \A i \in 1..Len(dump) : Len(handledBy[i]) <= 1
    /\ pc = "stream" =>
        \A w \in Workers : SameRecords(acc[w], SequentialRun(HandledBy(w), sources))
    /\ Done =>
        /\ \A i \in 1..Len(dump) : Len(handledBy[i]) = 1
        /\ \E i \in live :
            /\ live = {i}
            /\ SameRecords(acc[i], SequentialRun(dump, sources))

\* C18's case: a run of two workers is done in which each worker handled an entity
\* that it made a record of.
C18_Witness ==
    /\ Done /\ nWorkers = 2
    /\ \E i, j \in 1..Len(dump) :
        /\ handledBy[i] = <<1>> /\ handledBy[j] = <<2>>
        /\ HasLabel(dump[i]) /\ HasManufacturerRelation(dump[i])
        /\ HasLabel(dump[j]) /\ HasOrganisationSignal(dump[j], sources)
    /\ \E i \in live : Len(acc[i].products) = 1 /\ Len(acc[i].organisations) >= 1

(***************************************************************************)
(* Collecting search results: a ResultCollector is given some calls of     *)
(* add and then gathered.                                                  *)
(***************************************************************************)
r1 == [variant |-> "Product", label |-> "Fairphone 4", id |-> "1"]
r2 == [variant |-> "Product", label |-> "Samsung 4", id |-> "2"]
r3 == [variant |-> "Product", label |-> "Fairphone 3", id |-> "3"]

\* The calls of add the model makes: the results of a keyword, the keyword
\* and its place in the query (None for the whole query).
AddCalls ==
    [results  : {<<r1>>, <<r1, r2>>, <<r2, r1>>, <<r3>>},
     matching : {"", "4"},
     index    : {None, Some(0), Some(2)}]

AddCall ==
    /\ rcGathered = None
    /\ Len(rcAdds) < MaxAdds
    /\ \E call \in AddCalls :
        /\ rcResults' = ResultCollector_add(rcResults, call.results, call.matching,
                                            call.index)
        /\ rcAdds' = Append(rcAdds, call)
    /\ UNCHANGED <<rcGathered, notCollectVars>>

GatherCall ==
    /\ rcGathered = None
    /\ rcGathered' = Some(gather_scored_results(rcResults))
    /\ UNCHANGED <<rcResults, rcAdds, notCollectVars>>

InitCollect ==
    CollectIdle /\ PipeIdle /\ MergeIdle /\ HandleIdle /\ LoadIdle /\ FtiIdle /\ FinalIdle

NextCollect ==
    \/ AddCall
    \/ GatherCall

SpecCollect == InitCollect /\ [][NextCollect]_vars

\* The orders a sequence can be put in.
Orders(seq) ==
    LET n == Len(seq)
    IN  {[i \in 1..n |-> seq[p[i]]] :
            p \in {q \in [1..n -> 1..n] : \A i, j \in 1..n : q[i] = q[j] => i = j}}

\* The same calls of add in another order, the results of every call in
\* another order too.
Reordered(calls) ==
    UNION {{other \in [1..Len(calls) -> AddCalls] :
                \A i \in 1..Len(calls) :
                    /\ other[i].results \in Orders(order[i].results)
                    /\ other[i].matching = order[i].matching
                    /\ other[i].index = order[i].index} :
           order \in Orders(calls)}

\* The collector after the calls.
RECURSIVE Collected(_, _)
Collected(self, calls) ==
    IF calls = <<>>
    THEN self
    ELSE Collected(ResultCollector_add(self, Head(calls).results, Head(calls).matching,
                                       Head(calls).index), Tail(calls))

\* The ids of the results the calls were given.
AddedIds(calls) ==
    UNION {{calls[i].results[k].id : k \in 1..Len(calls[i].results)} :
           i \in 1..Len(calls)}

\* C19 as the claim states it: what gather_scored_results returns has one entry for
\* every id the calls of add were given, the greater score first and equal
\* scores in the order of the ids, and it is the list the same calls give in
\* every other order, the results of a call in every other order: the score
\* of an entry is the sum of its contributions whatever the order they were
\* added in.
C19_Original ==
    IsSome(rcGathered) =>
        LET list == Unwrap(rcGathered)
        IN  /\ {list[i].result.id : i \in 1..Len(list)} = AddedIds(rcAdds)
            /\ Len(list) = Cardinality(AddedIds(rcAdds))
            /\ \A i, j \in 1..Len(list) : i < j => SortsBefore(list[i], list[j])
            /\ \A other \in Reordered(rcAdds) :
                  gather_scored_results(Collected(<<>>, other)) = list

(***************************************************************************)
(* C21.  The certifications of an organisation.                            *)
(***************************************************************************)
\* The entity of the dump an organisation was made of.
EntityOf(organisation) ==
    CHOOSE entity \in Range(dump) : entity.id = organisation.id

\* What the indices say of an entity: whether one of the domains of its
\* websites is in the domain index, whether its id is in the id index, and the
\* entry of the score index for its id.
ResolvedCertifications(entity, srcs) ==
    [bcorp |-> DomainsOf(entity) \cap DOMAIN srcs.bcorp.domain_to_name # {},
     tco   |-> entity.id \in DOMAIN srcs.tco.companies,
     fti   |-> IF entity.id \in DOMAIN srcs.fti.entries
               THEN Some(srcs.fti.entries[entity.id].score)
               ELSE None]

\* C21: at every moment of a run, every organisation held in an accumulator or
\* written to the organisations artifact has the id of an entity of the dump and
\* the certifications the indices give that entity: the flag by domain is true
\* iff a domain of the entity's websites is in the domain index (false without a
\* website), the flag by id is true iff the entity's id is in the id index, the
\* score is the score index's entry for the id or absent; and no step of the run,
\* a merge and finalize included, changes the certifications of an organisation
\* already held.
C21_CertificationsResolvedOnce ==
    /\ [](\A organisation \in OrganisationsAnywhere :
            /\ \E entity \in Range(dump) : entity.id = organisation.id
            /\ organisation.certifications
                   = ResolvedCertifications(EntityOf(organisation), sources)
            /\ DomainsOf(EntityOf(organisation)) = {}
                   => ~organisation.certifications.bcorp)
    /\ [][\A before \in OrganisationsAnywhere : \A after \in OrganisationsAnywhere' :
            before.id = after.id => before.certifications = after.certifications]_vars

\* C21's case: a run of two workers is done, the accumulators were merged and the
\* organisations written; one of them has a website whose domain is in the domain
\* index, its id in the id index and a score, another has no website, is by no
\* index certified but has a score.
C21_Witness ==
    /\ Done /\ nWorkers = 2
    /\ \E i, j \in 1..Len(dump) : handledBy[i] = <<1>> /\ handledBy[j] = <<2>>
    /\ \E first, second \in Range(Unwrap(outOrganisations)) :
        /\ first.websites # <<>>
        /\ first.certifications = Certifications(TRUE, TRUE, Some(5))
        /\ second.websites = <<>>
        /\ second.certifications = Certifications(FALSE, FALSE, Some(7))

====
